---- MODULE Spec2Model ----
(***************************************************************************)
(* Model of yt2audi's concurrent processing pipeline                       *)
(* (src/yt2audi/core/pipeline.py) together with the collaborators whose    *)
(* behaviour the pipeline's guarantees depend on: the history store, the   *)
(* metadata cache in front of the extractor, the converter's path          *)
(* prediction and output naming, the size remediation policy and the USB   *)
(* transfer.                                                               *)
(*                                                                         *)
(* asyncio runs the tasks of run_batch on one event loop, so the code      *)
(* between two awaits of process_one is one atomic step.  The awaits are:  *)
(* extract_info_async, a semaphore acquisition that has to wait,           *)
(* download_video_async, convert_video_async and run_in_executor.  Each    *)
(* action below is the code from the completion of one await up to the     *)
(* next await (or the return/raise of process_one).                        *)
(*                                                                         *)
(* External tools (yt-dlp, ffmpeg, the USB volume) succeed or fail         *)
(* nondeterministically.  Plain file operations of the code on existing    *)
(* files (unlink, history append) are taken to succeed.  A semaphore is    *)
(* its counter: a task that finds it at 0 waits, and any waiting task may  *)
(* take a slot once the counter is positive.                               *)
(*                                                                         *)
(* Spec is one run_batch over all the urls; SpecSeq is process_one called  *)
(* on one url several times in sequence on the same pipeline.  SpecSize    *)
(* is one call of Splitter.handle_size_exceed with the sizes of the files  *)
(* in numbers, SpecEncoder one call of select_best_encoder; both draw the  *)
(* call's arguments and the answers of the external tools in Init.         *)
(* SpecList is Spec over urls that name a playlist beside their video.     *)
(* SpecProgress is one call of process_one with the reports of its         *)
(* progress hooks, SpecDownload one call of download_video under its       *)
(* retry decorator, SpecHistory a HistoryManager on a history file given   *)
(* character by character.  SpecLive is Spec on a fresh installation with  *)
(* the event loop's fairness, SpecDup is Spec over a batch that names one  *)
(* url several times.  SpecCache is MetadataCache.set called from one      *)
(* worker thread per item, SpecWeb the web shell's run_pipeline_task, one  *)
(* per queued request.                                                     *)
(***************************************************************************)
EXTENDS Integers, Sequences, FiniteSets, TLC

\* ------------------------------------------------------------------ bounds

NumItems == 2

\* limits above the batch size behave like the batch size
MaxD == NumItems

MaxC == NumItems

MaxRounds == 2

\* the progress reports looked at in one call of process_one
MaxReports == 2

\* ------------------------------------------------------- program constants

\* sanitize_filename(filename, max_length=255)
MaxFilenameLength == 255

\* filename[: max_length - 10]
TruncateMargin == 10

Items == 1..NumItems

\* OnSizeExceed enum values (models/profile.py)
OnSizeExceed == {"split", "compress", "warn", "skip"}

\* ------------------------------------------------------------ file names
\* A file name stem is a sequence of tokens; a token is one character of
\* the title, or an opaque piece (an id, "_part000") whose characters the
\* sanitizers leave alone.

NonAscii == {"e'"}

InvalidChars == {"<", ">", ":", "\"", "/", "\\", "|", "?", "*"}

Whitespace == {" ", "\t"}

StripChars == {".", " "}

Letters == <<"a", "b", "c", "d", "e", "f">>

Digits == <<"1", "2", "3", "4", "5", "6", "7", "8", "9">>

RECURSIVE CollapseSpaces(_)
\* re.sub(r"\s+", " ", filename)
CollapseSpaces(s) ==
    IF s = <<>> THEN <<>>
    ELSE IF Head(s) \in Whitespace
         THEN IF Len(s) > 1 /\ s[2] \in Whitespace
              THEN CollapseSpaces(Tail(s))
              ELSE <<" ">> \o CollapseSpaces(Tail(s))
         ELSE <<Head(s)>> \o CollapseSpaces(Tail(s))

RECURSIVE LStrip(_)
LStrip(s) ==
    IF s # <<>> /\ Head(s) \in StripChars THEN LStrip(Tail(s)) ELSE s

RECURSIVE RStrip(_)
RStrip(s) ==
    IF s # <<>> /\ s[Len(s)] \in StripChars
    THEN RStrip(SubSeq(s, 1, Len(s) - 1))
    ELSE s

\* utils/paths.py sanitize_filename
sanitize_filename(filename) ==
    LET ascii    == SelectSeq(filename, LAMBDA c : c \notin NonAscii)
        valid    == SelectSeq(ascii, LAMBDA c : c \notin InvalidChars)
        spaced   == CollapseSpaces(valid)
        stripped == RStrip(LStrip(spaced))
        cut      == IF Len(stripped) > MaxFilenameLength
                    THEN SubSeq(stripped, 1, MaxFilenameLength - TruncateMargin)
                    ELSE stripped
    IN  IF cut = <<>> THEN <<"video">> ELSE cut

\* yt-dlp's file name for "restrictfilenames": True (whitespace becomes "_")
RestrictFilename(s) ==
    [k \in 1..Len(s) |-> IF s[k] \in Whitespace THEN "_" ELSE s[k]]

NoPath == [dir |-> "none", stem |-> <<>>, ext |-> ""]

MkPath(d, s, e) == [dir |-> d, stem |-> s, ext |-> e]

\* Path.with_suffix
with_suffix(p, e) == [p EXCEPT !.ext = e]

\* utils/paths.py ensure_extension
ensure_extension(p, e) == IF p.ext # e THEN with_suffix(p, e) ELSE p

RECURSIVE UniqueFrom(_, _, _)
UniqueFrom(p, fs, counter) ==
    LET new_path == [p EXCEPT !.stem = p.stem \o <<"_", Digits[counter]>>]
    IN  IF new_path \notin fs \/ counter >= Len(Digits)
        THEN new_path
        ELSE UniqueFrom(p, fs, counter + 1)

\* utils/paths.py get_unique_path
get_unique_path(p, fs) == IF p \notin fs THEN p ELSE UniqueFrom(p, fs, 1)

\* ---------------------------------------------------------------- profile

\* OutputConfig.container default
Container == "mp4"

\* the container yt-dlp delivers before conversion
SourceExt == "webm"

\* ------------------------------------------------------------ the videos
\* Item i of the batch is given url[i]; in every specification but SpecDup
\* item i is url i.  Every url names its own video: distinct
\* titles, distinct ids.  Whether the extractor's info dictionary carries
\* an "id" is fixed per url by the variable with_id.

NoId == <<>>

NoInfo == [ok |-> FALSE, id |-> NoId, title |-> <<>>]

TitleOf(u) ==
    IF u % 2 = 1 THEN <<Letters[u]>> ELSE <<Letters[u], " ", "x">>

IdOf(u) == <<"v", Digits[u]>>

\* the id of the playlist a url names beside its video (watch?v=..&list=..)
ListIdOf(u) == <<"PL", Digits[u]>>

\* ------------------------------------------------------------------ state

VARIABLES
    limits,              \* [D, C]: the constructor's two concurrency limits
    profile,             \* [on_size_exceed, usb_auto_copy]
    with_id,             \* urls whose info dictionary carries an "id"
    in_list,             \* urls that name their video inside a playlist
    hook,                \* the latest call of a progress hook of process_one
    download_semaphore,  \* asyncio.Semaphore._value
    convert_semaphore,   \* asyncio.Semaphore._value
    history,             \* HistoryManager._processed_ids
    cache,               \* urls held by the downloader's MetadataCache
    files,               \* paths that exist on disk
    big,                 \* files whose size exceeds max_file_size_gb
    round,               \* number of run_batch / process_one calls made
    phase,               \* run_batch: "idle" | "running" | "returned"
    urls,                \* the urls submitted so far
    url,                 \* per item: the url its process_one was given
    pc,                  \* per item: where its process_one stands
    info_dict,           \* per item: local info_dict
    downloaded_path,     \* per item: local downloaded_path
    thumbnail_path,      \* per item: local thumbnail_path
    output_path,         \* per item: convert_video_async's output_path
    conversion_success,  \* per item: local conversion_success
    final_paths,         \* per item: local final_paths
    events,              \* per item: progress_callback calls of this call
    calls,               \* per item: [dl, cv, split, usb] invocation counts
    ret,                 \* per item: value returned by process_one
    error,               \* per item: the stage that raised an exception
    prev,                \* per item: outcome of the previous round's call
    final_results,       \* run_batch's returned dictionary
    size_args,           \* handle_size_exceed: arguments, media, tool answers
    size_disk,           \* handle_size_exceed: size in kbit of each file on disk
    size_result,         \* handle_size_exceed: [state, paths]
    segment_time,        \* the -segment_time given to ffmpeg, in ms (0: not run)
    enc_args,            \* select_best_encoder: priority list, probe answers
    enc_result,          \* select_best_encoder: [state, encoder, error]
    gpu_result,          \* what detect_available_gpus gave select_best_encoder
    dl_args,             \* download_video: the url's validity, each attempt's outcome
    dl_call,             \* download_video: [state, attempts, last, error]
    history_file,        \* history.txt: its characters
    processed_ids,       \* HistoryManager._processed_ids of the instance in use
    hist_call,           \* HistoryManager: [n, op, id, marked, fault]
    cache_file,          \* metadata.json: its tokens
    self_cache,          \* MetadataCache._cache: its keys in insertion order
    set_call,            \* per thread in MetadataCache.set: [pc, size, f]
    usb_auto_copy,       \* web: pipeline_instance.profile.transfer.usb_auto_copy
    loaded_usb_auto_copy, \* web: usb_auto_copy as load_profile gave it
    task                 \* web: per run_pipeline_task [pc, auto_copy_usb,
                         \*      original_usb_setting, copies]

vars == <<limits, profile, with_id, in_list, hook, download_semaphore, convert_semaphore,
          history, cache, files, big, round, phase, urls, pc, info_dict,
          downloaded_path, thumbnail_path, output_path, conversion_success,
          final_paths, events, calls, ret, error, prev, final_results,
          size_args, size_disk, size_result, segment_time, enc_args,
          enc_result,
          gpu_result, dl_args, dl_call, history_file, processed_ids,
          hist_call, url, cache_file, self_cache, set_call, usb_auto_copy,
          loaded_usb_auto_copy, task>>

\* the variables of the size-remediation and encoder-selection calls
size_vars == <<size_args, size_disk, size_result, segment_time>>

enc_vars == <<enc_args, enc_result, gpu_result>>

dl_vars == <<dl_args, dl_call>>

hist_vars == <<history_file, processed_ids, hist_call>>

cache_vars == <<cache_file, self_cache, set_call>>

web_vars == <<usb_auto_copy, loaded_usb_auto_copy, task>>

\* The state as one record, so that the straight-line code between two
\* awaits can be composed from the operators that model its statements.
Cur ==
    [limits |-> limits, profile |-> profile, with_id |-> with_id,
     in_list |-> in_list, hook |-> hook,
     download_semaphore |-> download_semaphore,
     convert_semaphore |-> convert_semaphore,
     history |-> history, cache |-> cache, files |-> files, big |-> big,
     round |-> round, phase |-> phase, urls |-> urls, pc |-> pc, info_dict |-> info_dict,
     downloaded_path |-> downloaded_path, thumbnail_path |-> thumbnail_path,
     output_path |-> output_path, conversion_success |-> conversion_success,
     final_paths |-> final_paths, events |-> events, calls |-> calls,
     ret |-> ret, error |-> error, prev |-> prev, final_results |-> final_results,
     url |-> url]

Becomes(w) ==
    \E next \in {w} :
        /\ limits' = next.limits
        /\ profile' = next.profile
        /\ with_id' = next.with_id
        /\ in_list' = next.in_list
        /\ hook' = next.hook
        /\ download_semaphore' = next.download_semaphore
        /\ convert_semaphore' = next.convert_semaphore
        /\ history' = next.history
        /\ cache' = next.cache
        /\ files' = next.files
        /\ big' = next.big
        /\ round' = next.round
        /\ phase' = next.phase
        /\ urls' = next.urls
        /\ pc' = next.pc
        /\ info_dict' = next.info_dict
        /\ downloaded_path' = next.downloaded_path
        /\ thumbnail_path' = next.thumbnail_path
        /\ output_path' = next.output_path
        /\ conversion_success' = next.conversion_success
        /\ final_paths' = next.final_paths
        /\ events' = next.events
        /\ calls' = next.calls
        /\ ret' = next.ret
        /\ error' = next.error
        /\ prev' = next.prev
        /\ final_results' = next.final_results
        /\ url' = next.url
        /\ UNCHANGED <<size_vars, enc_vars, dl_vars, hist_vars, cache_vars, web_vars>>

NoCalls == [dl |-> 0, cv |-> 0, split |-> 0, usb |-> 0]

\* a progress dictionary of yt-dlp with nothing in it
NoReport ==
    [status |-> "none", downloaded_bytes |-> 0, total_bytes |-> 0,
     total_bytes_estimate |-> 0]

\* no progress hook has been called: n counts the calls, d is the
\* dictionary given to _dl_hook, percent and stage the arguments of _cv_hook
NoHook == [n |-> 0, kind |-> "none", d |-> NoReport, percent |-> 0, stage |-> <<>>]

NoPrev == [pc |-> "none", ret |-> <<>>]

\* ------------------------------------------------------- collaborators

\* the info dictionary yt-dlp resolves for the video of url u (download_video
\* runs it with "noplaylist": True)
Meta(u, ids) ==
    [ok |-> TRUE, id |-> IF u \in ids THEN IdOf(u) ELSE NoId, title |-> TitleOf(u)]

\* Downloader.extract_info (the definition at lines 655-690, which replaces
\* the one at lines 45-86): yt-dlp is run without "noplaylist", so a url
\* that names a playlist resolves to the playlist
extract_info(u, ids, lists) ==
    IF u \in lists
    THEN [ok |-> TRUE, id |-> ListIdOf(u), title |-> TitleOf(u)]
    ELSE Meta(u, ids)

\* Converter.get_output_path with the default template "{title}_{id}.{ext}"
get_output_path(info) ==
    MkPath("out",
           sanitize_filename(info.title) \o <<"_">>
               \o (IF info.id = NoId THEN <<"none">> ELSE info.id),
           Container)

\* Downloader.download_video: temp_dir / "%(title)s_%(id)s.%(ext)s"
DownloadedFile(info) ==
    MkPath("temp",
           RestrictFilename(info.title) \o <<"_">>
               \o (IF info.id = NoId THEN <<"NA">> ELSE info.id),
           SourceExt)

\* Converter.convert_video_async: the output path it decides on entry
ConvertOutputPath(input_path, fs) ==
    get_unique_path(
        ensure_extension(
            MkPath("out", sanitize_filename(input_path.stem), Container),
            Container),
        fs)

\* HistoryManager.is_processed
is_processed(hist, video_id) == video_id \in hist

\* HistoryManager.mark_completed
mark_completed(hist, video_id) == hist \cup {video_id}

\* asyncio.Semaphore.locked / acquire / release
locked(sem) == sem = 0

acquire(sem) == sem - 1

release(sem) == sem + 1

RECURSIVE MapToUsb(_, _)
MapToUsb(paths, fs) ==
    IF paths = <<>> THEN <<>>
    ELSE IF Head(paths) \in fs
         THEN <<MkPath("usb", Head(paths).stem, Head(paths).ext)>>
                  \o MapToUsb(Tail(paths), fs)
         ELSE MapToUsb(Tail(paths), fs)

\* USBManager.copy_to_usb: the copies it makes of the sources that exist
copy_to_usb(file_paths, fs) == MapToUsb(file_paths, fs)

SeqRange(s) == {s[k] : k \in 1..Len(s)}

SplitParts(input_path) ==
    << [input_path EXCEPT !.stem = input_path.stem \o <<"_part000">>],
       [input_path EXCEPT !.stem = input_path.stem \o <<"_part001">>] >>

\* Splitter.handle_size_exceed: [raised, paths, created, removed]
handle_size_exceed(input_path, is_big, action, tool_ok) ==
    LET Result(r, p, c) == [raised |-> r, paths |-> p, created |-> c]
        compressed ==
            [input_path EXCEPT !.stem = input_path.stem \o <<"_compressed">>]
    IN  IF ~is_big THEN Result(FALSE, <<input_path>>, {})
        ELSE IF action = "split"
             THEN IF tool_ok
                  THEN Result(FALSE, SplitParts(input_path),
                              SeqRange(SplitParts(input_path)))
                  ELSE Result(TRUE, <<>>, {})
        ELSE IF action = "compress"
             THEN IF tool_ok
                  THEN Result(FALSE, <<compressed>>, {compressed})
                  ELSE Result(TRUE, <<>>, {})
        ELSE IF action = "warn" THEN Result(FALSE, <<input_path>>, {})
        ELSE Result(FALSE, <<>>, {})

\* ------------------------------------------------- process_one, by stage

Event(percent, stage) == [percent |-> percent, stage |-> stage]

\* progress_callback(url, percent, stage)
Emit(w, i, percent, stage) ==
    [w EXCEPT !.events[i] = Append(@, Event(percent, stage))]

\* return from process_one
Return(w, i, paths) == [w EXCEPT !.pc[i] = "returned", !.ret[i] = paths]

\* Raise that records the id the call has learned on its way out
Raise_Marks(w, i, stage) ==
    [w EXCEPT !.pc[i] = "raised", !.error[i] = stage,
              !.history = IF w.info_dict[i].id # NoId
                          THEN mark_completed(@, w.info_dict[i].id) ELSE @]

\* an exception raised in `stage` propagates out of process_one
Raise(w, i, stage) ==
    [w EXCEPT !.pc[i] = "raised", !.error[i] = stage]

\* Complete without the history record
Complete_NoMark(w, i) ==
    LET w1 == Emit(w, i, 100, <<"Complete">>)
    IN  Return(w1, i, w1.final_paths[i])

\* lines 208-215: report completion, record the id, return final_paths
Complete(w, i) ==
    LET w1 == Emit(w, i, 100, <<"Complete">>)
        w2 == IF w1.info_dict[i].ok /\ w1.info_dict[i].id # NoId
              THEN [w1 EXCEPT !.history = mark_completed(@, w1.info_dict[i].id)]
              ELSE w1
    IN  Return(w2, i, w2.final_paths[i])

\* Transfer in which a missing volume is an error of the item
Transfer_NoDriveFails(w, i, usb_found) ==
    IF w.profile.usb_auto_copy
    THEN LET w1 == Emit(w, i, 98, <<"Copying to USB">>)
         IN  IF usb_found
             THEN [w1 EXCEPT !.pc[i] = "transfer", !.calls[i].usb = @ + 1]
             ELSE Raise(w1, i, "transfer")
    ELSE Complete(w, i)

\* lines 183-206: the transfer stage up to its await (usb_found: the
\* outcome of USBManager.find_best_drive)
Transfer(w, i, usb_found) ==
    IF w.profile.usb_auto_copy
    THEN LET w1 == Emit(w, i, 98, <<"Copying to USB">>)
         IN  IF usb_found
             THEN [w1 EXCEPT !.pc[i] = "transfer", !.calls[i].usb = @ + 1]
             ELSE Complete(w1, i)
    ELSE Complete(w, i)

\* lines 171-181: the finalize stage (tool_ok: does ffmpeg split/compress)
Finalize(w, i, tool_ok, usb_found) ==
    LET w1 == Emit(w, i, 95, <<"Finalizing">>)
        w2 == [w1 EXCEPT !.calls[i].split = @ + 1]
        r  == handle_size_exceed(w2.output_path[i], w2.output_path[i] \in w2.big,
                                 w2.profile.on_size_exceed, tool_ok)
    IN  IF r.raised
        THEN Raise(w2, i, "finalize")
        ELSE Transfer([w2 EXCEPT !.final_paths[i] = r.paths,
                                 !.files = @ \cup r.created],
                      i, usb_found)

\* ConversionFailed with the slot kept on the error path
ConversionFailed_NoRelease(w, i) ==
    Raise(Emit(w, i, 0, <<"Conversion Failed: ", "ConversionError">>), i, "convert")

\* lines 151-155 with the release at the end of the async-with block
ConversionFailed(w, i) ==
    LET w1 == Emit(w, i, 0, <<"Conversion Failed: ", "ConversionError">>)
    IN  Raise([w1 EXCEPT !.convert_semaphore = release(@)], i, "convert")

\* Cleanup without the conversion_success condition
Cleanup_Always(w, i) ==
    [w EXCEPT !.files = @ \ {w.downloaded_path[i], w.thumbnail_path[i]}]

\* lines 156-169: the finally block of the conversion stage
Cleanup(w, i) ==
    IF w.conversion_success[i]
    THEN [w EXCEPT !.files = @ \ {w.downloaded_path[i], w.thumbnail_path[i]}]
    ELSE w

\* lines 133-149: the convert slot is held; convert_video_async runs up to
\* its first await (it raises at once when its input is missing)
StartConvert(w, i) ==
    LET w1 == [w EXCEPT !.convert_semaphore = acquire(@),
                        !.calls[i].cv = @ + 1]
    IN  IF w1.downloaded_path[i] \notin w1.files
        THEN ConversionFailed(w1, i)
        ELSE [w1 EXCEPT !.pc[i] = "convert",
                        !.output_path[i] =
                            ConvertOutputPath(w1.downloaded_path[i], w1.files)]

\* EnterConvert with one pool for both stages: it also waits while any
\* download slot is taken
EnterConvert_SharedPool(w, i) ==
    LET potential_thumbnail == with_suffix(w.downloaded_path[i], "jpg")
        w1 == [w EXCEPT !.thumbnail_path[i] =
                            IF potential_thumbnail \in w.files
                            THEN potential_thumbnail ELSE NoPath,
                        !.conversion_success[i] = FALSE]
    IN  IF ~locked(w1.convert_semaphore)
           /\ w1.download_semaphore = w1.limits.D
        THEN StartConvert(w1, i)
        ELSE [w1 EXCEPT !.pc[i] = "wait_cv"]

\* lines 124-133: thumbnail lookup, then async with self.convert_semaphore
EnterConvert(w, i) ==
    LET potential_thumbnail == with_suffix(w.downloaded_path[i], "jpg")
        w1 == [w EXCEPT !.thumbnail_path[i] =
                            IF potential_thumbnail \in w.files
                            THEN potential_thumbnail ELSE NoPath,
                        !.conversion_success[i] = FALSE]
    IN  IF ~locked(w1.convert_semaphore)
        THEN StartConvert(w1, i)
        ELSE [w1 EXCEPT !.pc[i] = "wait_cv"]

\* lines 101-117: the download slot is held, download_video_async is called
StartDownload(w, i) ==
    [w EXCEPT !.download_semaphore = acquire(@),
              !.pc[i] = "download",
              !.calls[i].dl = @ + 1]

\* EnterDownload without the semaphore
EnterDownload_NoLimit(w, i) == StartDownload(w, i)

\* line 101: async with self.download_semaphore
EnterDownload(w, i) ==
    IF ~locked(w.download_semaphore)
    THEN StartDownload(w, i)
    ELSE [w EXCEPT !.pc[i] = "wait_dl"]

\* DownloadFailed without the progress report
DownloadFailed_Silent(w, i) ==
    Raise([w EXCEPT !.download_semaphore = release(@)], i, "download")

\* DownloadFailed that swallows the error and goes on to the conversion
DownloadFailed_FallsThrough(w, i) ==
    LET w1 == Emit(w, i, 0, <<"Download Failed: ", "DownloadError">>)
    IN  EnterConvert([w1 EXCEPT !.download_semaphore = release(@)], i)

\* lines 118-122 with the release at the end of the async-with block
DownloadFailed(w, i) ==
    LET w1 == Emit(w, i, 0, <<"Download Failed: ", "DownloadError">>)
    IN  Raise([w1 EXCEPT !.download_semaphore = release(@)], i, "download")

\* DownloadSucceeded that keeps the download slot into the conversion stage
DownloadSucceeded_KeepsSlot(w, i, thumb) ==
    LET info == Meta(w.url[i], w.with_id)
        path == DownloadedFile(info)
        w1 == [w EXCEPT !.downloaded_path[i] = path,
                        !.info_dict[i] = info,
                        !.files = @ \cup {path}
                                    \cup (IF thumb THEN {with_suffix(path, "jpg")}
                                          ELSE {})]
    IN  EnterConvert(w1, i)

\* lines 115-117 and 123: the download returned (thumb: did yt-dlp write a
\* thumbnail), the slot is released, the conversion stage is entered
DownloadSucceeded(w, i, thumb) ==
    LET info == Meta(w.url[i], w.with_id)
        path == DownloadedFile(info)
        w1 == [w EXCEPT !.downloaded_path[i] = path,
                        !.info_dict[i] = info,
                        !.files = @ \cup {path}
                                    \cup (IF thumb THEN {with_suffix(path, "jpg")}
                                          ELSE {}),
                        !.download_semaphore = release(@)]
    IN  EnterConvert(w1, i)

\* Precheck without the history lookup
Precheck_NoHistory(w, i, info) ==
    LET video_id == info.id
        expected_path == get_output_path(info)
        w0 == [w EXCEPT !.info_dict[i] = info]
    IN  IF expected_path \in w.files
        THEN LET w1 == Emit(w0, i, 100, <<"Already exists">>)
                 w2 == IF video_id # NoId
                       THEN [w1 EXCEPT !.history = mark_completed(@, video_id)]
                       ELSE w1
             IN  Return(w2, i, <<expected_path>>)
        ELSE EnterDownload(w0, i)

\* Precheck that does not repair the history when the file exists
Precheck_NoRepair(w, i, info) ==
    LET video_id == info.id
        expected_path == get_output_path(info)
        w0 == [w EXCEPT !.info_dict[i] = info]
    IN  IF video_id # NoId /\ is_processed(w.history, video_id)
        THEN Return(Emit(w0, i, 100, <<"Already in history">>), i,
                    <<get_output_path(info)>>)
        ELSE IF expected_path \in w.files
             THEN Return(Emit(w0, i, 100, <<"Already exists">>), i,
                         <<expected_path>>)
             ELSE EnterDownload(w0, i)

\* lines 73-98: the pre-check once extract_info_async has returned info
Precheck(w, i, info) ==
    LET video_id == info.id
        expected_path == get_output_path(info)
        w0 == [w EXCEPT !.info_dict[i] = info]
    IN  IF video_id # NoId /\ is_processed(w.history, video_id)
        THEN Return(Emit(w0, i, 100, <<"Already in history">>), i,
                    <<get_output_path(info)>>)
        ELSE IF expected_path \in w.files
             THEN LET w1 == Emit(w0, i, 100, <<"Already exists">>)
                      w2 == IF video_id # NoId
                            THEN [w1 EXCEPT !.history = mark_completed(@, video_id)]
                            ELSE w1
                  IN  Return(w2, i, <<expected_path>>)
             ELSE EnterDownload(w0, i)

\* PrecheckFailed without the except clause: the exception leaves process_one
PrecheckFailed_Propagates(w, i) == Raise(w, i, "precheck")

\* lines 96-98: the pre-check raised
PrecheckFailed(w, i) == EnterDownload([w EXCEPT !.info_dict[i] = NoInfo], i)

\* convert_video_async returned: lines 143-150, the finally block, the
\* release of the slot, then the finalize, transfer and completion stages
ConversionSucceeded(w, i, over, tool_ok, usb_found) ==
    LET out == w.output_path[i]
        w1 == [w EXCEPT !.files = @ \cup {out},
                        !.big = IF over THEN @ \cup {out} ELSE @ \ {out},
                        !.conversion_success[i] = TRUE]
        w2 == Cleanup(w1, i)
        w3 == [w2 EXCEPT !.convert_semaphore = release(@)]
    IN  Finalize(w3, i, tool_ok, usb_found)

\* convert_video_async raised (converter.py 655-665 removes its output),
\* then lines 151-169 of the pipeline
ConversionRaised(w, i) ==
    LET w1 == [w EXCEPT !.files = @ \ {w.output_path[i]}]
    IN  ConversionFailed(Cleanup(w1, i), i)

\* lines 194-204: copy_to_usb returned, or raised USBTransferError, which
\* the except clause of lines 203-204 logs; then the completion stage
TransferReturned(w, i, ok) ==
    LET copied == copy_to_usb(w.final_paths[i], w.files)
    IN  IF ok
        THEN Complete([w EXCEPT !.final_paths[i] = copied,
                                !.files = @ \cup SeqRange(copied)], i)
        ELSE Complete([w EXCEPT !.error[i] = "transfer"], i)

\* ---------------------------------------------------------------- actions

\* process_one is entered: its locals are fresh, the outcome of the
\* previous call on the same url is remembered, and the code runs up to
\* its first await, extract_info_async
Enter(w, i) ==
    [w EXCEPT !.prev[i] = [pc |-> w.pc[i], ret |-> w.ret[i]],
              !.pc[i] = "precheck",
              !.info_dict[i] = NoInfo,
              !.downloaded_path[i] = NoPath,
              !.thumbnail_path[i] = NoPath,
              !.output_path[i] = NoPath,
              !.conversion_success[i] = FALSE,
              !.final_paths[i] = <<>>,
              !.events[i] = <<>>,
              !.calls[i] = NoCalls,
              !.ret[i] = <<>>,
              !.error[i] = "none"]

RECURSIVE EnterAll(_, _)
EnterAll(w, todo) ==
    IF todo = {} THEN w
    ELSE LET i == CHOOSE x \in todo : TRUE
         IN  EnterAll(Enter(w, i), todo \ {i})

\* gather without return_exceptions: the first exception ends the wait
gather_done_FailFast(pcs) ==
    \/ \E i \in Items : pcs[i] = "raised"
    \/ \A i \in Items : pcs[i] \in {"returned", "raised"}

\* asyncio.gather(*tasks, return_exceptions=True) has its result
gather_done(pcs) == \A i \in Items : pcs[i] \in {"returned", "raised"}

\* run_batch, lines 238-243: the dictionary of the urls that did not raise
collect(pcs, rets) == [u \in {i \in Items : pcs[i] = "returned"} |-> rets[u]]

\* The state after construction (pipeline.py 41-46): the semaphores are
\* full, the history holds what history.txt held, the output directory may
\* hold finished files of earlier sessions.
PipelineState ==
    /\ limits \in [D : 1..MaxD, C : 1..MaxC]
    /\ profile \in [on_size_exceed : OnSizeExceed, usb_auto_copy : BOOLEAN]
    /\ with_id \in SUBSET Items
    /\ download_semaphore = limits.D
    /\ convert_semaphore = limits.C
    /\ history \in SUBSET {IdOf(u) : u \in with_id}
    /\ cache = {}
    /\ \E left \in SUBSET Items :
           files = {get_output_path(Meta(u, with_id)) : u \in left}
    /\ big = {}
    /\ round = 0
    /\ phase = "idle"
    /\ urls = {}
    /\ pc = [i \in Items |-> "idle"]
    /\ info_dict = [i \in Items |-> NoInfo]
    /\ downloaded_path = [i \in Items |-> NoPath]
    /\ thumbnail_path = [i \in Items |-> NoPath]
    /\ output_path = [i \in Items |-> NoPath]
    /\ conversion_success = [i \in Items |-> FALSE]
    /\ final_paths = [i \in Items |-> <<>>]
    /\ events = [i \in Items |-> <<>>]
    /\ calls = [i \in Items |-> NoCalls]
    /\ ret = [i \in Items |-> <<>>]
    /\ error = [i \in Items |-> "none"]
    /\ prev = [i \in Items |-> NoPrev]
    /\ final_results = <<>>
    /\ hook = NoHook

\* the urls submitted are plain video urls
PipelineInit ==
    /\ PipelineState
    /\ in_list = {}
    /\ url = [i \in Items |-> i]

\* a pipeline with nothing submitted: the state of the program while a
\* single call of a stateless helper is looked at
PipelineIdle ==
    /\ PipelineInit
    /\ limits = [D |-> 1, C |-> 1]
    /\ profile = [on_size_exceed |-> "split", usb_auto_copy |-> FALSE]
    /\ with_id = {}
    /\ files = {}

pipeline_vars ==
    <<limits, profile, with_id, in_list, hook, download_semaphore,
      convert_semaphore, history, cache, files, big, round, phase, urls, pc, info_dict,
      downloaded_path, thumbnail_path, output_path, conversion_success,
      final_paths, events, calls, ret, error, prev, final_results, url>>

NoMedia == [duration |-> 0]

NoTool ==
    [probe_ok |-> FALSE, duration_reported |-> FALSE,
     bitrate_reported |-> FALSE, run_ok |-> FALSE, found |-> FALSE]

\* no call of handle_size_exceed is looked at
SizeIdle ==
    /\ size_args = [input_path |-> NoPath, max_size |-> 0, action |-> "warn",
                    media |-> NoMedia, tool |-> NoTool]
    /\ size_disk = [p \in {} |-> 0]
    /\ size_result = [state |-> "idle", paths |-> <<>>]
    /\ segment_time = 0

\* no call of select_best_encoder is looked at
EncIdle ==
    /\ enc_args = [encoder_priority |-> <<>>, nvml |-> "absent",
                   gputil |-> [state |-> "absent", gpus |-> {}],
                   ffmpeg |-> [state |-> "failed", encoders |-> {}]]
    /\ enc_result = [state |-> "idle", encoder |-> "none", error |-> "none"]
    /\ gpu_result = [raised |-> FALSE, value |-> <<>>]

\* no call of download_video is looked at
DlIdle ==
    /\ dl_args = [valid |-> TRUE, outcomes |-> <<>>]
    /\ dl_call = [state |-> "idle", attempts |-> 0, last |-> "none",
                  error |-> "none"]

\* no HistoryManager is looked at on its own
HistIdle ==
    /\ history_file = <<>>
    /\ processed_ids = {}
    /\ hist_call = [n |-> 0, op |-> "none", id |-> NoId, marked |-> {},
                    fault |-> FALSE]

\* no MetadataCache.set is looked at thread by thread
CacheIdle ==
    /\ cache_file = <<>>
    /\ self_cache = <<>>
    /\ set_call = <<>>

\* no web request is looked at
WebIdle ==
    /\ usb_auto_copy = FALSE
    /\ loaded_usb_auto_copy = FALSE
    /\ task = <<>>

Init ==
    /\ PipelineInit
    /\ SizeIdle
    /\ EncIdle
    /\ DlIdle
    /\ HistIdle
    /\ CacheIdle
    /\ WebIdle

\* run_batch, lines 233-236: one process_one task per url of the batch
RunBatch ==
    /\ phase = "idle"
    /\ round = 0
    /\ Becomes(EnterAll([Cur EXCEPT !.round = @ + 1,
                                    !.phase = "running",
                                    !.urls = Items], Items))

\* process_one called directly on url u, with no other call in flight
CallProcessOne(u) ==
    /\ phase = "idle"
    /\ round < MaxRounds
    /\ urls \subseteq {u}
    /\ pc[u] \in {"idle", "returned", "raised"}
    /\ Becomes(Enter([Cur EXCEPT !.round = @ + 1, !.urls = {u}], u))

\* extract_info_async completes: from the cache, or from yt-dlp (which may
\* fail); a fresh result is cached (downloader.py 61-86)
PrecheckDone(i) ==
    /\ pc[i] = "precheck"
    /\ \E ok \in BOOLEAN :
           IF ok \/ url[i] \in cache
           THEN Becomes(Precheck([Cur EXCEPT !.cache = @ \cup {url[i]}], i,
                                 extract_info(url[i], with_id, in_list)))
           ELSE Becomes(PrecheckFailed(Cur, i))

\* a waiter on download_semaphore is woken with a slot free
AcquireDownload(i) ==
    /\ pc[i] = "wait_dl"
    /\ ~locked(download_semaphore)
    /\ Becomes(StartDownload(Cur, i))

\* download_video_async completes
DownloadDone(i) ==
    /\ pc[i] = "download"
    /\ \E ok, thumb \in BOOLEAN :
           IF ok
           THEN Becomes(DownloadSucceeded(Cur, i, thumb))
           ELSE /\ ~thumb
                /\ Becomes(DownloadFailed(Cur, i))

\* a waiter on convert_semaphore is woken with a slot free
AcquireConvert(i) ==
    /\ pc[i] = "wait_cv"
    /\ ~locked(convert_semaphore)
    /\ Becomes(StartConvert(Cur, i))

\* convert_video_async completes
ConvertDone(i) ==
    /\ pc[i] = "convert"
    /\ \E ok, over, tool_ok, usb_found \in BOOLEAN :
           IF ok
           THEN Becomes(ConversionSucceeded(Cur, i, over, tool_ok, usb_found))
           ELSE /\ ~over /\ ~tool_ok /\ ~usb_found
                /\ Becomes(ConversionRaised(Cur, i))

\* run_in_executor(copy_to_usb) completes
TransferDone(i) ==
    /\ pc[i] = "transfer"
    /\ \E ok \in BOOLEAN : Becomes(TransferReturned(Cur, i, ok))

\* run_batch, lines 236-251: gather has every result; keep the successes
BatchReturn ==
    /\ phase = "running"
    /\ gather_done(pc)
    /\ Becomes([Cur EXCEPT !.phase = "returned",
                           !.final_results = collect(pc, ret)])

\* one run_batch over all the urls
Next ==
    \/ RunBatch
    \/ BatchReturn
    \/ \E i \in Items : PrecheckDone(i)
    \/ \E i \in Items : AcquireDownload(i)
    \/ \E i \in Items : DownloadDone(i)
    \/ \E i \in Items : AcquireConvert(i)
    \/ \E i \in Items : ConvertDone(i)
    \/ \E i \in Items : TransferDone(i)

Spec == Init /\ [][Next]_vars

\* run_batch when every external operation ends (it returns or raises) and
\* the event loop goes on running a task as long as one can run: a
\* gathered task is started, a completed await is resumed, a waiter of a
\* semaphore is woken once a slot is free.  No step of run_batch can be
\* taken twice, so this makes every task that can run, run.
Fairness == WF_vars(Next)

\* a fresh installation: nothing in history, nothing in the output
\* directory, every url with an id; every profile and every pair of limits
InitLive ==
    /\ Init
    /\ with_id = Items
    /\ history = {}
    /\ files = {}

SpecLive == InitLive /\ [][Next]_vars /\ Fairness

\* one run_batch over urls of which some name a playlist beside the video
InitList ==
    /\ PipelineState
    /\ in_list \in SUBSET Items \ {{}}
    /\ url = [i \in Items |-> i]
    /\ with_id = Items
    /\ limits = [D |-> 1, C |-> 1]
    /\ SizeIdle
    /\ EncIdle
    /\ DlIdle
    /\ HistIdle
    /\ CacheIdle
    /\ WebIdle

SpecList == InitList /\ [][Next]_vars

\* one run_batch whose urls are all the same url, not processed before:
\* run_batch starts one process_one per element of the list it is given
InitDup ==
    /\ PipelineState
    /\ in_list = {}
    /\ url = [i \in Items |-> 1]
    /\ history = {}
    /\ files = {}
    /\ SizeIdle
    /\ EncIdle
    /\ DlIdle
    /\ HistIdle
    /\ CacheIdle
    /\ WebIdle

SpecDup == InitDup /\ [][Next]_vars

\* -------------------------------------------------- the progress hooks
\* Percentages are whole numbers in the model; the reports drawn below are
\* among those whose forwarded percentage is whole.

\* process_one._dl_hook forwarding the bare fraction as a percentage
dl_hook_Unscaled(w, i, d) ==
    LET downloaded == d.downloaded_bytes
        total == IF d.total_bytes # 0 THEN d.total_bytes
                 ELSE d.total_bytes_estimate
    IN  IF d.status = "downloading" /\ total > 0
        THEN Emit(w, i, (downloaded * 100) \div total, <<"Downloading">>)
        ELSE w

\* process_one._dl_hook (pipeline.py 104-111): percent = downloaded / total * 50
dl_hook(w, i, d) ==
    LET downloaded == d.downloaded_bytes
        total == IF d.total_bytes # 0 THEN d.total_bytes
                 ELSE d.total_bytes_estimate
    IN  IF d.status = "downloading" /\ total > 0
        THEN Emit(w, i, (downloaded * 50) \div total, <<"Downloading">>)
        ELSE w

\* process_one._cv_hook handing the transcoder's percentage on as it is
cv_hook_Unscaled(w, i, percent, stage) ==
    Emit(w, i, percent, stage)

\* process_one._cv_hook (pipeline.py 136-140): 50 + percent * 0.5
cv_hook(w, i, percent, stage) ==
    Emit(w, i, 50 + percent \div 2, stage)

\* the dictionaries yt-dlp hands to the hook: total_bytes or the estimate
\* may be missing (0), the estimate may be under the bytes downloaded
DownloadReports ==
    [status : {"downloading", "finished"}, downloaded_bytes : {0, 1, 3},
     total_bytes : {0, 2}, total_bytes_estimate : {0, 10}]

\* the percentages and stages convert_video_async reports (converter.py
\* 553-644)
ConvertReports ==
    {[percent |-> 10, stage |-> <<"Building conversion command">>],
     [percent |-> 50, stage |-> <<"Converting video">>],
     [percent |-> 100, stage |-> <<"Conversion complete">>]}

\* yt-dlp calls the progress hook during download_video_async
DownloadProgress(i) ==
    /\ pc[i] = "download"
    /\ hook.n < MaxReports
    /\ \E d \in DownloadReports :
           Becomes(dl_hook([Cur EXCEPT !.hook = [NoHook EXCEPT !.n = hook.n + 1,
                                                               !.kind = "dl",
                                                               !.d = d]],
                           i, d))

\* convert_video_async calls its progress callback; its percentages go
\* up: 5, 10, 15, then with ffmpeg's time up to 95, then 100
ConvertProgress(i) ==
    /\ pc[i] = "convert"
    /\ hook.n < MaxReports
    /\ \E r \in ConvertReports :
         /\ r.percent >= hook.percent
         /\ Becomes(cv_hook([Cur EXCEPT !.hook = [NoHook EXCEPT !.n = hook.n + 1,
                                                               !.kind = "cv",
                                                               !.percent = r.percent,
                                                               !.stage = r.stage]],
                           i, r.percent, r.stage))

\* process_one is called once on url u
CallOnce(u) ==
    /\ round = 0
    /\ CallProcessOne(u)

\* one call of process_one on the first url, with its progress reports
InitProgress ==
    /\ PipelineIdle
    /\ SizeIdle
    /\ EncIdle
    /\ DlIdle
    /\ HistIdle
    /\ CacheIdle
    /\ WebIdle

NextProgress ==
    \/ CallOnce(1)
    \/ PrecheckDone(1)
    \/ DownloadProgress(1)
    \/ DownloadDone(1)
    \/ ConvertProgress(1)
    \/ ConvertDone(1)

SpecProgress == InitProgress /\ [][NextProgress]_vars

\* process_one called on one url MaxRounds times in sequence
NextSeq ==
    \/ \E u \in Items : CallProcessOne(u)
    \/ \E i \in Items : PrecheckDone(i)
    \/ \E i \in Items : DownloadDone(i)
    \/ \E i \in Items : ConvertDone(i)
    \/ \E i \in Items : TransferDone(i)

SpecSeq == Init /\ [][NextSeq]_vars

\* ------------------------------------------------------- size remediation
\* Splitter with the sizes of the files in numbers: sizes in kbit, rates in
\* kbit/s, durations in s, segment times in ms, factors in permille, all
\* integer.  ffprobe reports what the file has, or leaves a field out;
\* ffmpeg -c copy cuts a stream of constant rate at the segment time it is
\* given; the transcoder delivers the video and audio rates it is asked for.

\* audio_bitrate_kbps = 128
AudioBitrateKbps == 128

\* max(500, ...) for the video bitrate
MinVideoBitrateKbps == 500

\* bitrate = 1_000_000 (bits/s) when ffprobe reports neither bitrate nor duration
FallbackBitrateKbps == 1000

\* max(1.0, ...) for the segment time
MinSegmentMs == 1000

\* target_duration * 0.95
SafetyPermille == 950

\* reduction_factor=0.8
ReductionPermille == 800

Max(a, b) == IF a >= b THEN a ELSE b

Min(a, b) == IF a <= b THEN a ELSE b

\* what a Splitter method does: raises, or returns paths; the disk afterwards
SizeResult(r, p, d) == [raised |-> r, paths |-> p, disk |-> d]

\* Splitter.get_file_size_gb: 0 for a file that does not exist
get_file_size_gb(path, disk) == IF path \in DOMAIN disk THEN disk[path] ELSE 0

\* %03d
PartNumber ==
    <<"000", "001", "002", "003", "004", "005", "006", "007", "008", "009">>

\* output_dir / f"{input_path.stem}_part%03d{input_path.suffix}"
part_path(input_path, k) ==
    [input_path EXCEPT !.dir = "out",
                       !.stem = input_path.stem \o <<"_part" \o PartNumber[k]>>]

\* what ffprobe prints for a file of `size` kbit: 0 for a field it leaves out
Probe(size, media, tool) ==
    [duration |-> IF tool.duration_reported THEN media.duration ELSE 0,
     bitrate  |-> IF tool.bitrate_reported THEN size \div media.duration ELSE 0]

\* target_duration without the floor of one second
target_duration_NoFloor(size, max_size, probe) ==
    LET bitrate == IF probe.bitrate <= 0
                   THEN IF probe.duration > 0
                        THEN size \div probe.duration
                        ELSE FallbackBitrateKbps
                   ELSE probe.bitrate
    IN  (max_size * SafetyPermille) \div bitrate

\* split_video, lines 112-125: the segment time handed to ffmpeg, in ms
target_duration(size, max_size, probe) ==
    LET bitrate == IF probe.bitrate <= 0
                   THEN IF probe.duration > 0
                        THEN size \div probe.duration
                        ELSE FallbackBitrateKbps
                   ELSE probe.bitrate
    IN  Max(MinSegmentMs, (max_size * SafetyPermille) \div bitrate)

RECURSIVE Segments(_, _, _)
\* the sizes of the segments ffmpeg writes for a stream of `kbps` that has
\* `left_ms` to go, cut every `seg_ms`
Segments(kbps, left_ms, seg_ms) ==
    IF left_ms <= 0 THEN <<>>
    ELSE <<(kbps * Min(seg_ms, left_ms)) \div 1000>>
             \o Segments(kbps, left_ms - seg_ms, seg_ms)

\* split_collect that returns whatever the glob found
split_collect_NoCheck(parts, disk) == SizeResult(FALSE, parts, disk)

\* split_video, lines 154-167: the part files found, or an error if none
split_collect(parts, disk) ==
    IF parts = <<>>
    THEN SizeResult(TRUE, <<>>, disk)
    ELSE SizeResult(FALSE, parts, disk)

\* split_video, lines 48-142: the -segment_time of the ffmpeg command when
\* the file is there, is over the ceiling and ffprobe succeeded; 0 when no
\* command is built
split_segment_time(input_path, disk, max_size, media, tool) ==
    LET size == get_file_size_gb(input_path, disk)
    IN  IF input_path \in DOMAIN disk /\ size > max_size /\ tool.probe_ok
        THEN target_duration(size, max_size, Probe(size, media, tool))
        ELSE 0

\* Splitter.split_video
split_video(input_path, disk, max_size, media, tool) ==
    LET size    == get_file_size_gb(input_path, disk)
        seg_ms  == target_duration(size, max_size, Probe(size, media, tool))
        sizes   == Segments(size \div media.duration, media.duration * 1000,
                            seg_ms)
        written == [k \in 1..Len(sizes) |-> part_path(input_path, k)]
        after   == [p \in DOMAIN disk \cup SeqRange(written) |->
                       IF p \in SeqRange(written)
                       THEN sizes[CHOOSE k \in 1..Len(sizes) : written[k] = p]
                       ELSE disk[p]]
    IN  IF input_path \notin DOMAIN disk THEN SizeResult(TRUE, <<>>, disk)
        ELSE IF size <= max_size THEN SizeResult(FALSE, <<input_path>>, disk)
        ELSE IF ~tool.probe_ok \/ ~tool.run_ok THEN SizeResult(TRUE, <<>>, disk)
        ELSE IF tool.found THEN split_collect(written, after)
        ELSE split_collect(<<>>, disk)

\* Splitter.compress_to_size
compress_to_size(input_path, disk, target_size, reduction_factor, out_path, media, tool) ==
    LET duration == IF tool.duration_reported THEN media.duration ELSE 0
        target_bitrate_kbps ==
            (target_size * reduction_factor) \div (duration * 1000)
        video_bitrate_kbps ==
            Max(MinVideoBitrateKbps, target_bitrate_kbps - AudioBitrateKbps)
        output_size == (video_bitrate_kbps + AudioBitrateKbps) * media.duration
        after == [p \in DOMAIN disk \cup {out_path} |->
                     IF p = out_path THEN output_size ELSE disk[p]]
    IN  IF input_path \notin DOMAIN disk THEN SizeResult(TRUE, <<>>, disk)
        ELSE IF ~tool.probe_ok \/ duration = 0 THEN SizeResult(TRUE, <<>>, disk)
        ELSE IF ~tool.run_ok \/ ~tool.found THEN SizeResult(TRUE, <<>>, disk)
        ELSE SizeResult(FALSE, <<out_path>>, after)

\* handle_size_exceed that applies the skip action before looking at the size
Splitter_handle_size_exceed_SkipFirst(input_path, disk, max_size, action, media, tool) ==
    IF action = "skip" THEN SizeResult(FALSE, <<>>, disk)
    ELSE IF get_file_size_gb(input_path, disk) <= max_size
         THEN SizeResult(FALSE, <<input_path>>, disk)
    ELSE IF action = "split"
         THEN split_video(input_path, disk, max_size, media, tool)
    ELSE IF action = "compress"
         THEN compress_to_size(input_path, disk, max_size, ReductionPermille,
                  [input_path EXCEPT !.dir = "out",
                                     !.stem = input_path.stem \o <<"_compressed">>],
                  media, tool)
    ELSE SizeResult(FALSE, <<input_path>>, disk)

\* Splitter.handle_size_exceed on a disk whose file sizes are known
Splitter_handle_size_exceed(input_path, disk, max_size, action, media, tool) ==
    IF get_file_size_gb(input_path, disk) <= max_size
    THEN SizeResult(FALSE, <<input_path>>, disk)
    ELSE IF action = "split"
         THEN split_video(input_path, disk, max_size, media, tool)
    ELSE IF action = "compress"
         THEN compress_to_size(input_path, disk, max_size, ReductionPermille,
                  [input_path EXCEPT !.dir = "out",
                                     !.stem = input_path.stem \o <<"_compressed">>],
                  media, tool)
    ELSE IF action = "warn" THEN SizeResult(FALSE, <<input_path>>, disk)
    ELSE IF action = "skip" THEN SizeResult(FALSE, <<>>, disk)
    ELSE SizeResult(TRUE, <<>>, disk)

\* the converted file handle_size_exceed is called on
SizedFile == MkPath("out", <<"a", "_", "v", "1">>, Container)

\* max_file_size_gb, in kbit
Ceilings == {8000}

\* sizes of the converted file, in kbit
FileSizes == {6000, 20000, 48000}

\* durations of the video, in s
Durations == {3, 20}

\* the answers of ffprobe and ffmpeg: a failed probe reports nothing, a
\* failed run leaves nothing to be found
ToolAnswers ==
    {t \in [probe_ok : BOOLEAN, duration_reported : BOOLEAN,
            bitrate_reported : BOOLEAN, run_ok : BOOLEAN, found : BOOLEAN] :
        /\ ~t.probe_ok => (~t.duration_reported /\ ~t.bitrate_reported /\ ~t.run_ok)
        /\ ~t.run_ok => ~t.found}

\* a call of handle_size_exceed is about to be made: the file is missing or
\* has one of the sizes
InitSize ==
    /\ PipelineIdle
    /\ EncIdle
    /\ DlIdle
    /\ HistIdle
    /\ CacheIdle
    /\ WebIdle
    /\ size_args \in [input_path : {SizedFile}, max_size : Ceilings,
                       action : OnSizeExceed,
                       media : [duration : Durations], tool : ToolAnswers]
    /\ size_disk \in {[p \in {} |-> 0]}
                     \cup {[p \in {SizedFile} |-> n] : n \in FileSizes}
    /\ size_result = [state |-> "called", paths |-> <<>>]
    /\ segment_time = 0

\* pipeline.py 176-181: the call of Splitter.handle_size_exceed returns or
\* raises
HandleSizeExceed ==
    /\ size_result.state = "called"
    /\ LET r == Splitter_handle_size_exceed(size_args.input_path, size_disk,
                     size_args.max_size, size_args.action, size_args.media,
                     size_args.tool)
       IN  /\ size_result' = [state |-> IF r.raised THEN "raised" ELSE "returned",
                              paths |-> r.paths]
           /\ size_disk' = r.disk
    /\ segment_time' = IF size_args.action = "split"
                       THEN split_segment_time(size_args.input_path, size_disk,
                                size_args.max_size, size_args.media,
                                size_args.tool)
                       ELSE 0
    /\ UNCHANGED <<size_args, pipeline_vars, enc_vars, dl_vars, hist_vars, cache_vars, web_vars>>

NextSize == HandleSizeExceed

SpecSize == InitSize /\ [][NextSize]_vars

\* ------------------------------------------------------ encoder selection
\* core/gpu_detector.py.  The probes' answers are the call's environment:
\* nvml and GPUtil may be absent (import failed), raise, or report devices;
\* `ffmpeg -encoders` lists encoders, fails (non-zero exit, timeout, no
\* ffmpeg: check_ffmpeg_encoder returns False) or raises an exception that
\* check_ffmpeg_encoder does not catch.  One call of select_best_encoder
\* gets the same answer from every run of ffmpeg.

MaxPriority == 3

\* models/profile.py EncoderType
EncoderType == {"h264_nvenc", "h264_amf", "h264_qsv", "libx264"}

\* GPUVendor -> EncoderType
vendor_encoder_map ==
    [nvidia |-> "h264_nvenc", amd |-> "h264_amf", intel |-> "h264_qsv"]

\* a value, or an exception on its way up
Value(v) == [raised |-> FALSE, value |-> v]

Raised == [raised |-> TRUE, value |-> FALSE]

\* check_ffmpeg_encoder
check_ffmpeg_encoder(encoder_name, ffmpeg) ==
    IF ffmpeg.state = "raises" THEN Raised
    ELSE Value(ffmpeg.state = "ok" /\ encoder_name \in ffmpeg.encoders)

\* detect_nvidia_gpu: is an NVIDIA device reported
detect_nvidia_gpu(env) == Value(env.nvml = "found")

\* detect_amd_gpu / detect_intel_gpu: GPUtil's device list, then ffmpeg's
\* encoder list
detect_by_gputil(vendor, env) ==
    IF env.gputil.state = "absent" THEN Value(FALSE)
    ELSE IF env.gputil.state = "ok" /\ vendor \in env.gputil.gpus
         THEN Value(TRUE)
    ELSE check_ffmpeg_encoder(vendor_encoder_map[vendor], env.ffmpeg)

detect_amd_gpu(env) == detect_by_gputil("amd", env)

detect_intel_gpu(env) == detect_by_gputil("intel", env)

\* detect_available_gpus: the vendors found, in the order nvidia, amd, intel
detect_available_gpus(env) ==
    LET nvidia == detect_nvidia_gpu(env)
        amd    == detect_amd_gpu(env)
        intel  == detect_intel_gpu(env)
    IN  IF amd.raised \/ intel.raised THEN Raised
        ELSE Value((IF nvidia.value THEN <<"nvidia">> ELSE <<>>)
                   \o (IF amd.value THEN <<"amd">> ELSE <<>>)
                   \o (IF intel.value THEN <<"intel">> ELSE <<>>))

\* available_encoders that trusts the detected hardware without asking ffmpeg
available_encoders_Unconfirmed(gpus, ffmpeg) ==
    {vendor_encoder_map[gpus[k]] : k \in 1..Len(gpus)}
    \cup (IF check_ffmpeg_encoder("libx264", ffmpeg).value
          THEN {"libx264"} ELSE {})

\* select_best_encoder, lines 219-230: the encoders ffmpeg confirms, of the
\* detected vendors and libx264
available_encoders(gpus, ffmpeg) ==
    {vendor_encoder_map[gpus[k]] : k \in
         {j \in 1..Len(gpus) :
              check_ffmpeg_encoder(vendor_encoder_map[gpus[j]], ffmpeg).value}}
    \cup (IF check_ffmpeg_encoder("libx264", ffmpeg).value
          THEN {"libx264"} ELSE {})

RECURSIVE first_in_priority_Last(_, _)
\* first_in_priority walking the list from its end
first_in_priority_Last(encoder_priority, available) ==
    IF encoder_priority = <<>> THEN "none"
    ELSE IF encoder_priority[Len(encoder_priority)] \in available
         THEN encoder_priority[Len(encoder_priority)]
         ELSE first_in_priority_Last(
                  SubSeq(encoder_priority, 1, Len(encoder_priority) - 1),
                  available)

RECURSIVE first_in_priority(_, _)
\* select_best_encoder, lines 235-238: the loop over encoder_priority
first_in_priority(encoder_priority, available) ==
    IF encoder_priority = <<>> THEN "none"
    ELSE IF Head(encoder_priority) \in available
         THEN Head(encoder_priority)
         ELSE first_in_priority(Tail(encoder_priority), available)

EncResult(st, e, err) == [state |-> st, encoder |-> e, error |-> err]

\* select_best_encoder without the libx264 fallback of lines 240-243
select_best_encoder_NoFallback(encoder_priority, env) ==
    LET gpus      == detect_available_gpus(env)
        available == available_encoders(gpus.value, env.ffmpeg)
        chosen    == first_in_priority(encoder_priority, available)
    IN  IF gpus.raised \/ env.ffmpeg.state = "raises"
        THEN EncResult("raised", "none", "OSError")
        ELSE IF chosen # "none" THEN EncResult("returned", chosen, "none")
        ELSE EncResult("raised", "none", "GPUDetectionError")

\* select_best_encoder that falls back to libx264 without confirming it
select_best_encoder_BlindFallback(encoder_priority, env) ==
    LET gpus      == detect_available_gpus(env)
        available == available_encoders(gpus.value, env.ffmpeg)
        chosen    == first_in_priority(encoder_priority, available)
    IN  IF gpus.raised \/ env.ffmpeg.state = "raises"
        THEN EncResult("raised", "none", "OSError")
        ELSE IF chosen # "none" THEN EncResult("returned", chosen, "none")
        ELSE EncResult("returned", "libx264", "none")

\* select_best_encoder
select_best_encoder(encoder_priority, env) ==
    LET gpus      == detect_available_gpus(env)
        available == available_encoders(gpus.value, env.ffmpeg)
        chosen    == first_in_priority(encoder_priority, available)
    IN  IF gpus.raised \/ env.ffmpeg.state = "raises"
        THEN EncResult("raised", "none", "OSError")
        ELSE IF chosen # "none" THEN EncResult("returned", chosen, "none")
        ELSE IF "libx264" \in available
             THEN EncResult("returned", "libx264", "none")
        ELSE EncResult("raised", "none", "GPUDetectionError")

\* encoder_priority: every list of at most MaxPriority encoders
PriorityLists == UNION {[1..n -> EncoderType] : n \in 0..MaxPriority}

NvmlAnswers == {"absent", "raises", "none", "found"}

GPUtilAnswers ==
    {[state |-> "absent", gpus |-> {}], [state |-> "raises", gpus |-> {}]}
    \cup {[state |-> "ok", gpus |-> g] : g \in SUBSET {"amd", "intel"}}

FfmpegAnswers ==
    {[state |-> "failed", encoders |-> {}], [state |-> "raises", encoders |-> {}]}
    \cup {[state |-> "ok", encoders |-> e] : e \in SUBSET EncoderType}

\* a call of select_best_encoder is about to be made
InitEncoder ==
    /\ PipelineIdle
    /\ SizeIdle
    /\ DlIdle
    /\ HistIdle
    /\ CacheIdle
    /\ WebIdle
    /\ enc_args \in [encoder_priority : PriorityLists, nvml : NvmlAnswers,
                      gputil : GPUtilAnswers, ffmpeg : FfmpegAnswers]
    /\ enc_result = EncResult("called", "none", "none")
    /\ gpu_result = Value(<<>>)

\* select_best_encoder returns or raises
SelectBestEncoder ==
    /\ enc_result.state = "called"
    /\ gpu_result' = detect_available_gpus(enc_args)
    /\ enc_result' = select_best_encoder(enc_args.encoder_priority, enc_args)
    /\ UNCHANGED <<enc_args, pipeline_vars, size_vars, dl_vars, hist_vars, cache_vars, web_vars>>

NextEncoder == SelectBestEncoder

SpecEncoder == InitEncoder /\ [][NextEncoder]_vars

\* ------------------------------------------- download_video and its retry
\* One call of Downloader.download_video under its tenacity decorator
\* (downloader.py 303-384).

\* stop_after_attempt(3)
StopAfterAttempt == 3

\* what one run of the function body meets: a finished download, yt-dlp's
\* DownloadError, no info dictionary, no file at the prepared name, another
\* exception inside the try block, or output_dir.mkdir failing before it
Outcomes == {"ok", "ydl_error", "no_info", "no_file", "unexpected", "mkdir_error"}

\* the body of download_video: the exception one run ends with ("none": it
\* returns the path and the info dictionary)
download_video(valid, outcome) ==
    IF ~valid THEN "ValueError"
    ELSE IF outcome = "mkdir_error" THEN "OSError"
    ELSE IF outcome = "ok" THEN "none"
    ELSE "DownloadError"

\* a retry predicate that retries after every exception
retry_if_exception_type_Any(exc) ==
    TRUE

\* retry_if_exception_type((DownloadError, ConnectionError))
retry_if_exception_type(exc) ==
    exc \in {"DownloadError", "ConnectionError"}

\* a call of download_video is about to be made
InitDownload ==
    /\ PipelineIdle
    /\ SizeIdle
    /\ EncIdle
    /\ dl_args \in [valid : BOOLEAN, outcomes : [1..StopAfterAttempt -> Outcomes]]
    /\ dl_call = [state |-> "called", attempts |-> 0, last |-> "none",
                  error |-> "none"]
    /\ HistIdle
    /\ CacheIdle
    /\ WebIdle

\* tenacity runs the body once more and decides: return, retry (after the
\* exponential wait) or re-raise
DownloadAttempt ==
    /\ dl_call.state \in {"called", "retrying"}
    /\ LET n   == dl_call.attempts + 1
           exc == download_video(dl_args.valid, dl_args.outcomes[n])
       IN  dl_call' =
               IF exc = "none"
               THEN [state |-> "returned", attempts |-> n, last |-> exc,
                     error |-> "none"]
               ELSE IF retry_if_exception_type(exc) /\ n < StopAfterAttempt
                    THEN [state |-> "retrying", attempts |-> n, last |-> exc,
                          error |-> "none"]
                    ELSE [state |-> "raised", attempts |-> n, last |-> exc,
                          error |-> exc]
    /\ UNCHANGED <<dl_args, pipeline_vars, size_vars, enc_vars, hist_vars, cache_vars, web_vars>>

NextDownload == DownloadAttempt

SpecDownload == InitDownload /\ [][NextDownload]_vars

\* ------------------------------------------------- the history file
\* HistoryManager on its own (history.py): the file is a sequence of
\* characters, an id a sequence of characters.

\* the operations looked at on one file
MaxMarks == 3

NL == "\n"

RECURSIVE strip_left(_)
strip_left(s) ==
    IF s # <<>> /\ Head(s) \in Whitespace \cup {NL}
    THEN strip_left(Tail(s))
    ELSE s

RECURSIVE strip_right(_)
strip_right(s) ==
    IF s # <<>> /\ s[Len(s)] \in Whitespace \cup {NL}
    THEN strip_right(SubSeq(s, 1, Len(s) - 1))
    ELSE s

\* str.strip
strip(s) == strip_right(strip_left(s))

RECURSIVE file_lines(_, _)
\* the lines a text file is iterated by: `text` is what remains to be
\* read, `line` what was read since the last newline
file_lines(text, line) ==
    IF text = <<>> THEN (IF line = <<>> THEN <<>> ELSE <<line>>)
    ELSE IF Head(text) = NL
         THEN <<Append(line, NL)>> \o file_lines(Tail(text), <<>>)
         ELSE file_lines(Tail(text), Append(line, Head(text)))

\* HistoryManager._load_history: {line.strip() for line in f if line.strip()}
load_history(text) ==
    LET lines == file_lines(text, <<>>)
    IN  {strip(lines[k]) : k \in {j \in 1..Len(lines) : strip(lines[j]) # <<>>}}

\* HistoryManager._save_id: append f"{video_id}\n"
save_id(text, video_id) == text \o video_id \o <<NL>>

\* the ids marked
HistoryIds == {IdOf(u) : u \in 1..3}

\* history.txt as a session finds it: absent or empty, written by earlier
\* sessions, or edited by hand (blank and padded lines, and a last line
\* without a newline, as in tests/unit/test_history.py 15)
HistoryFiles ==
    {<<>>,
     IdOf(1) \o <<NL>>,
     IdOf(1) \o <<NL, NL, " ">> \o IdOf(2) \o <<" ", NL>>,
     IdOf(1) \o <<NL, NL, " ">> \o IdOf(2) \o <<" ">>}

\* HistoryManager(history_file) is constructed on the file
InitHistory ==
    /\ PipelineIdle
    /\ SizeIdle
    /\ EncIdle
    /\ DlIdle
    /\ CacheIdle
    /\ WebIdle
    /\ history_file \in HistoryFiles
    /\ processed_ids = load_history(history_file)
    /\ hist_call = [n |-> 0, op |-> "none", id |-> NoId, marked |-> {},
                    fault |-> FALSE]

\* HistoryManager.mark_completed(video_id) on the instance in use; the
\* append may fail, which _save_id logs and swallows
MarkCompleted(video_id) ==
    /\ hist_call.n < MaxMarks
    /\ \E written \in BOOLEAN :
           /\ (video_id \in processed_ids) => written
           /\ processed_ids' = mark_completed(processed_ids, video_id)
           /\ history_file' = IF is_processed(processed_ids, video_id) \/ ~written
                              THEN history_file
                              ELSE save_id(history_file, video_id)
           /\ hist_call' = [n |-> hist_call.n + 1, op |-> "mark",
                            id |-> video_id,
                            marked |-> hist_call.marked \cup {video_id},
                            fault |-> hist_call.fault \/ ~written]
    /\ UNCHANGED <<pipeline_vars, size_vars, enc_vars, dl_vars, cache_vars, web_vars>>

\* a later HistoryManager is constructed on the same file and used from
\* then on
NewInstance ==
    /\ hist_call.n < MaxMarks
    /\ processed_ids' = load_history(history_file)
    /\ hist_call' = [hist_call EXCEPT !.n = @ + 1, !.op = "load", !.id = NoId]
    /\ UNCHANGED <<history_file, pipeline_vars, size_vars, enc_vars, dl_vars, cache_vars,
                   web_vars>>

NextHistory ==
    \/ \E video_id \in HistoryIds : MarkCompleted(video_id)
    \/ NewInstance

SpecHistory == InitHistory /\ [][NextHistory]_vars

\* ------------------------------------- MetadataCache.set, thread by thread
\* extract_info_async runs Downloader.extract_info in a worker thread
\* (asyncio.to_thread), one per item, all on the one MetadataCache of the
\* pipeline's downloader; MetadataCache has no lock.  Thread t stores the
\* metadata of url t.  The interpreter may switch threads between any two
\* of the steps below.  metadata.json is its sequence of tokens: "{", ",",
\* "}" and one token per entry; what a handle writes stays in its buffer
\* until the handle is closed.

Threads == 1..NumItems

\* the entry of url u as it stands in the text of the file
Key(u) == Digits[u]

Keys == {Key(u) : u \in 1..(NumItems + 1)}

\* no call of set: nothing written, no handle
NoSet == [pc |-> "idle", size |-> 0, k |-> 0, f |-> <<>>]

\* json.dump's text of a dictionary with the keys given, in order
RECURSIVE json_dump_items(_)
json_dump_items(keys) ==
    IF keys = <<>> THEN <<>>
    ELSE IF Len(keys) = 1 THEN <<Key(keys[1])>>
    ELSE <<Key(keys[1]), ",">> \o json_dump_items(Tail(keys))

json_dump(keys) == <<"{">> \o json_dump_items(keys) \o <<"}">>

\* json.load: the keys of the object the text holds, or a failure
json_load(text) ==
    LET n == Len(text)
        inner == IF n >= 2 THEN SubSeq(text, 2, n - 1) ELSE <<>>
        ok == /\ n >= 2
              /\ text[1] = "{"
              /\ text[n] = "}"
              /\ Len(inner) = 0 \/ Len(inner) % 2 = 1
              /\ \A j \in 1..Len(inner) :
                     IF j % 2 = 1 THEN inner[j] \in Keys ELSE inner[j] = ","
    IN  [ok |-> ok,
         keys |-> IF ok THEN {inner[j] : j \in {m \in 1..Len(inner) : m % 2 = 1}}
                  ELSE {}]

\* MetadataCache._load_cache: what a new MetadataCache holds
load_cache(text) == json_load(text).keys

\* a handle opened with "w" writes its buffer from offset 0 over the file
flush(file, buffer) ==
    IF Len(buffer) >= Len(file) THEN buffer
    ELSE buffer \o SubSeq(file, Len(buffer) + 1, Len(file))

\* the dictionaries a MetadataCache may hold when the batch starts
InitCache ==
    /\ PipelineIdle
    /\ SizeIdle
    /\ EncIdle
    /\ DlIdle
    /\ HistIdle
    /\ WebIdle
    /\ self_cache \in {<<>>, <<NumItems + 1>>}
    /\ cache_file = IF self_cache = <<>> THEN <<>> ELSE json_dump(self_cache)
    /\ set_call = [t \in Threads |-> NoSet]

\* set, line 104: self._cache[url] = {...}
set(t) ==
    /\ set_call[t].pc = "idle"
    /\ self_cache' = IF \E j \in 1..Len(self_cache) : self_cache[j] = t
                     THEN self_cache ELSE Append(self_cache, t)
    /\ set_call' = [set_call EXCEPT ![t].pc = "save"]
    /\ UNCHANGED <<cache_file, pipeline_vars, size_vars, enc_vars, dl_vars, hist_vars, web_vars>>

\* _save_cache, line 54: open(self.cache_file, "w") truncates the file
save_cache_open(t) ==
    /\ set_call[t].pc = "save"
    /\ cache_file' = <<>>
    /\ set_call' = [set_call EXCEPT ![t].pc = "dump", ![t].f = <<>>]
    /\ UNCHANGED <<self_cache, pipeline_vars, size_vars, enc_vars, dl_vars, hist_vars, web_vars>>

\* line 55: json.dump starts on self._cache
save_cache_dump(t) ==
    /\ set_call[t].pc = "dump"
    /\ set_call' = [set_call EXCEPT ![t].pc = "items",
                                    ![t].size = Len(self_cache),
                                    ![t].k = 0,
                                    ![t].f = <<"{">>]
    /\ UNCHANGED <<self_cache, cache_file, pipeline_vars, size_vars, enc_vars,
                   dl_vars, hist_vars, web_vars>>

\* line 55: the encoder asks the dictionary for its next item, which raises
\* RuntimeError if the dictionary changed size since the iteration began;
\* lines 57-58 log the error after the with statement closed the handle
save_cache_item(t) ==
    /\ set_call[t].pc = "items"
    /\ LET c == set_call[t]
       IN  IF Len(self_cache) # c.size
           THEN set_call' = [set_call EXCEPT ![t].pc = "close"]
           ELSE IF c.k < c.size
           THEN set_call' =
                    [set_call EXCEPT
                         ![t].k = c.k + 1,
                         ![t].f = c.f \o (IF c.k = 0 THEN <<>> ELSE <<",">>)
                                      \o <<Key(self_cache[c.k + 1])>>]
           ELSE set_call' = [set_call EXCEPT ![t].pc = "close",
                                             ![t].f = c.f \o <<"}">>]
    /\ UNCHANGED <<self_cache, cache_file, pipeline_vars, size_vars, enc_vars,
                   dl_vars, hist_vars, web_vars>>

\* the end of the with statement of lines 54-55 closes the handle, which
\* writes its buffer; set returns
save_cache_close(t) ==
    /\ set_call[t].pc = "close"
    /\ cache_file' = flush(cache_file, set_call[t].f)
    /\ set_call' = [set_call EXCEPT ![t].pc = "returned"]
    /\ UNCHANGED <<self_cache, pipeline_vars, size_vars, enc_vars, dl_vars, hist_vars, web_vars>>

NextCache ==
    \/ \E t \in Threads : set(t)
    \/ \E t \in Threads : save_cache_open(t)
    \/ \E t \in Threads : save_cache_dump(t)
    \/ \E t \in Threads : save_cache_item(t)
    \/ \E t \in Threads : save_cache_close(t)

SpecCache == InitCache /\ [][NextCache]_vars

\* ------------------------------------------------- the web shell's requests
\* web/app.py: every POST /api/queue adds one run_pipeline_task as a
\* background task; the tasks run on the server's event loop and all share
\* pipeline_instance and its profile.  A task's steps are the code between
\* its awaits.

Requests == 1..NumItems

\* the requests queued, each with its auto_copy_usb, on the profile as
\* load_profile gave it
InitWeb ==
    /\ PipelineIdle
    /\ SizeIdle
    /\ EncIdle
    /\ DlIdle
    /\ HistIdle
    /\ CacheIdle
    /\ usb_auto_copy \in BOOLEAN
    /\ loaded_usb_auto_copy = usb_auto_copy
    /\ \E auto \in [Requests -> BOOLEAN] :
           task = [j \in Requests |->
                      [pc |-> "queued", auto_copy_usb |-> auto[j],
                       original_usb_setting |-> FALSE, copies |-> FALSE]]

\* run_pipeline_task, lines 100-129: the flag is saved, set if the request
\* asks for the copy, and process_one is awaited
run_pipeline_task(j) ==
    /\ task[j].pc = "queued"
    /\ task' = [task EXCEPT ![j].pc = "processing",
                            ![j].original_usb_setting = usb_auto_copy]
    /\ usb_auto_copy' = (IF task[j].auto_copy_usb THEN TRUE ELSE usb_auto_copy)
    /\ UNCHANGED <<loaded_usb_auto_copy, pipeline_vars, size_vars, enc_vars, dl_vars,
                   hist_vars, cache_vars>>

\* process_one reaches its transfer stage (pipeline.py 184) and reads the
\* flag of the shared profile
process_one_transfer(j) ==
    /\ task[j].pc = "processing"
    /\ task' = [task EXCEPT ![j].pc = "transfer", ![j].copies = usb_auto_copy]
    /\ UNCHANGED <<usb_auto_copy, loaded_usb_auto_copy, pipeline_vars, size_vars,
                   enc_vars, dl_vars, hist_vars, cache_vars>>

\* process_one returns, or raises at any stage; lines 134-136 restore the
\* flag saved
run_pipeline_task_finally(j) ==
    /\ task[j].pc \in {"processing", "transfer"}
    /\ usb_auto_copy' = task[j].original_usb_setting
    /\ task' = [task EXCEPT ![j].pc = "finished"]
    /\ UNCHANGED <<loaded_usb_auto_copy, pipeline_vars, size_vars, enc_vars, dl_vars,
                   hist_vars, cache_vars>>

NextWeb ==
    \/ \E j \in Requests : run_pipeline_task(j)
    \/ \E j \in Requests : process_one_transfer(j)
    \/ \E j \in Requests : run_pipeline_task_finally(j)

SpecWeb == InitWeb /\ [][NextWeb]_vars

\* ------------------------------------------------------------------ claims


InDownload == {i \in Items : pc[i] = "download"}

InConvert == {i \in Items : pc[i] = "convert"}

LastEvent(i) == events[i][Len(events[i])]

\* C1: in every reachable state of run_batch at most D items hold a
\* download slot and at most C items hold a transcode slot.
C1_ConcurrencyBound ==
    /\ Cardinality(InDownload) <= limits.D
    /\ Cardinality(InConvert) <= limits.C

\* the download stage is full and another item is kept waiting for it
C1_Witness ==
    /\ Cardinality(InDownload) = limits.D
    /\ \E i \in Items : pc[i] = "wait_dl"

\* C2: when run_batch returns, every item has run to its own result, and
\* the returned map holds exactly the urls whose process_one returned, each
\* with the value it returned; run_batch has no other exit.
C2_FaultIsolation ==
    phase = "returned" =>
        /\ \A i \in Items : pc[i] \in {"returned", "raised"}
        /\ DOMAIN final_results = {i \in Items : pc[i] = "returned"}
        /\ \A u \in DOMAIN final_results : final_results[u] = ret[u]

\* run_batch returned a batch in which one item raised and another returned
C2_Witness ==
    /\ phase = "returned"
    /\ \E i, j \in Items : pc[i] = "raised" /\ pc[j] = "returned"

\* C3 (as claimed): once process_one has returned for a url, the next call
\* on that url invokes neither the downloader nor the transcoder and
\* returns the same list of paths.
C3_Idempotent ==
    \A i \in Items :
        prev[i].pc = "returned" =>
            /\ calls[i].dl = 0
            /\ calls[i].cv = 0
            /\ pc[i] = "returned" => ret[i] = prev[i].ret

\* C4: when the downloader raised, process_one has reported percent 0 with
\* a stage label beginning "Download Failed", has raised, and has invoked
\* neither the transcoder nor size remediation nor the transfer.
C4_DownloadFailure ==
    \A i \in Items :
        error[i] = "download" =>
            /\ pc[i] = "raised"
            /\ events[i] # <<>>
            /\ LastEvent(i).percent = 0
            /\ Head(LastEvent(i).stage) = "Download Failed: "
            /\ calls[i] = [dl |-> 1, cv |-> 0, split |-> 0, usb |-> 0]

\* an item's download raised
C4_Witness == \E i \in Items : error[i] = "download"

\* C5: in every state the free slots plus the items inside the stage make
\* up the configured capacity, for both stages.
C5_SlotsReleased ==
    /\ download_semaphore + Cardinality(InDownload) = limits.D
    /\ convert_semaphore + Cardinality(InConvert) = limits.C

\* with one download slot, an item downloads after another item's download
\* failed, and an item converts after another item's conversion failed
C5_Witness ==
    \/ /\ limits.D = 1
       /\ \E i, j \in Items : error[i] = "download" /\ pc[j] = "download"
    \/ /\ limits.C = 1
       /\ \E i, j \in Items : error[i] = "convert" /\ pc[j] = "convert"

C7_Pipelining ==
    [][\A i \in Items :
           (pc[i] = "download" /\ downloaded_path'[i] # NoPath) =>
               (pc'[i] = "wait_cv" <=> convert_semaphore = 0)]_vars

\* one item is downloading while a different item is transcoding
C7_Witness ==
    \E i, j \in Items : i # j /\ pc[i] = "download" /\ pc[j] = "convert"

StageOrder ==
    { <<"idle", "precheck">>,
      <<"precheck", "wait_dl">>, <<"precheck", "download">>,
      <<"precheck", "returned">>,
      <<"wait_dl", "download">>,
      <<"download", "wait_cv">>, <<"download", "convert">>,
      <<"download", "raised">>,
      <<"wait_cv", "convert">>, <<"wait_cv", "raised">>,
      <<"convert", "transfer">>, <<"convert", "returned">>,
      <<"convert", "raised">>,
      <<"transfer", "returned">> }

StagesInOrder(i) ==
    /\ calls[i].dl <= 1 /\ calls[i].cv <= 1
    /\ calls[i].split <= 1 /\ calls[i].usb <= 1
    /\ calls[i].cv = 1 => (calls[i].dl = 1 /\ downloaded_path[i] # NoPath)
    /\ calls[i].split = 1 => (calls[i].cv = 1 /\ conversion_success[i])
    /\ calls[i].usb = 1 => calls[i].split = 1
    /\ pc[i] = "returned" =>
           \/ calls[i] = NoCalls /\ Len(events[i]) = 1
           \/ calls[i].dl = 1 /\ calls[i].cv = 1 /\ calls[i].split = 1

\* C8: within one item the stages run in the order pre-check, download,
\* transcode, finalize, transfer, complete; the transcoder runs only after
\* the download returned, size remediation only after the transcode
\* succeeded, no stage runs twice, and only a pre-check short-circuit
\* returns without the download, transcode and finalize stages.
C8_StageOrder ==
    /\ [](\A i \in Items : StagesInOrder(i))
    /\ [][\A i \in Items :
              pc'[i] # pc[i] => <<pc[i], pc'[i]>> \in StageOrder]_vars

\* an item returned after all five stages ran once
C8_Witness ==
    \E i \in Items :
        /\ pc[i] = "returned"
        /\ calls[i] = [dl |-> 1, cv |-> 1, split |-> 1, usb |-> 1]

\* C9: when the pre-check resolves an id that history marks complete,
\* process_one reports (100, "Already in history") and nothing else,
\* returns [predicted output path], takes no slot of either semaphore and
\* invokes neither the downloader nor the transcoder.
C9_SkipHistory ==
    [][\A i \in Items :
           ( /\ pc[i] = "precheck" /\ pc'[i] # "precheck"
             /\ info_dict'[i].ok
             /\ info_dict'[i].id # NoId
             /\ info_dict'[i].id \in history )
           => /\ pc'[i] = "returned"
              /\ events'[i] = <<Event(100, <<"Already in history">>)>>
              /\ ret'[i] = <<get_output_path(info_dict'[i])>>
              /\ calls'[i] = NoCalls
              /\ download_semaphore' = download_semaphore
              /\ convert_semaphore' = convert_semaphore]_vars

\* an item was skipped because history held its id
C9_Witness ==
    \E i \in Items :
        /\ pc[i] = "returned"
        /\ events[i] = <<Event(100, <<"Already in history">>)>>

\* C10: when the pre-check resolves metadata whose id is not in history
\* and the predicted output path exists, process_one marks the id complete
\* (when there is one), reports (100, "Already exists"), returns [that
\* path] and does not enter the download stage.
C10_SkipExisting ==
    [][\A i \in Items :
           ( /\ pc[i] = "precheck" /\ pc'[i] # "precheck"
             /\ info_dict'[i].ok
             /\ ~(info_dict'[i].id # NoId /\ info_dict'[i].id \in history)
             /\ get_output_path(info_dict'[i]) \in files )
           => /\ pc'[i] = "returned"
              /\ events'[i] = <<Event(100, <<"Already exists">>)>>
              /\ ret'[i] = <<get_output_path(info_dict'[i])>>
              /\ history' = IF info_dict'[i].id # NoId
                            THEN history \cup {info_dict'[i].id}
                            ELSE history
              /\ calls'[i] = NoCalls
              /\ download_semaphore' = download_semaphore
              /\ convert_semaphore' = convert_semaphore]_vars

\* an item with an id was skipped because its output file exists, and its
\* id is now in history
C10_Witness ==
    \E i \in Items :
        /\ pc[i] = "returned"
        /\ events[i] = <<Event(100, <<"Already exists">>)>>
        /\ info_dict[i].id # NoId
        /\ info_dict[i].id \in history

\* C11: when the pre-check raises, process_one does not fail: it keeps no
\* pre-check result, reports nothing, and goes on to the download stage (it
\* takes a download slot and calls the downloader, or waits for a slot).
C11_PrecheckFailureProceeds ==
    [][\A i \in Items :
           ( /\ pc[i] = "precheck" /\ pc'[i] # "precheck"
             /\ ~info_dict'[i].ok )
           => /\ pc'[i] \in {"download", "wait_dl"}
              /\ pc'[i] = "download" <=> download_semaphore > 0
              /\ pc'[i] = "download" => calls'[i].dl = 1
              /\ info_dict'[i] = NoInfo
              /\ error'[i] = "none"
              /\ events'[i] = <<>>
              /\ history' = history]_vars

\* an item whose pre-check raised is downloading
C11_Witness ==
    \E i \in Items :
        pc[i] = "download" /\ info_dict[i] = NoInfo /\ calls[i].dl = 1

\* the item ran its stages to the end (no pre-check short-circuit)
Completed(i) ==
    /\ pc[i] = "returned"
    /\ events[i] # <<>>
    /\ LastEvent(i) = Event(100, <<"Complete">>)

\* C12: the step in which process_one returns after all its stages adds
\* the item's id to history when the item's metadata carries one, and leaves
\* history as it is when no id was learned; so a completed item with an id
\* is in history from its return on.
C12_HistoryOnCompletion ==
    /\ [](\A i \in Items :
              (Completed(i) /\ info_dict[i].id # NoId) =>
                  is_processed(history, info_dict[i].id))
    /\ [][\A i \in Items :
              (pc[i] \in {"convert", "transfer"} /\ pc'[i] = "returned") =>
                  history' = IF info_dict'[i].id # NoId
                             THEN history \cup {info_dict'[i].id}
                             ELSE history]_vars

\* one item with an id and one item without completed all their stages
C12_Witness ==
    \E i, j \in Items :
        /\ Completed(i) /\ info_dict[i].id # NoId /\ calls[i].cv = 1
        /\ Completed(j) /\ info_dict[j].id = NoId /\ calls[j].cv = 1

\* C13 (as claimed): an error raised by any stage of an item (download,
\* transcode, size remediation or transfer) aborts the item: process_one
\* raises without running a later stage, and run_batch leaves the url out
\* of its result map.
C13_ErrorAborts ==
    \A i \in Items :
        error[i] # "none" =>
            /\ pc[i] = "raised"
            /\ ~Completed(i)
            /\ phase = "returned" => i \notin DOMAIN final_results

\* the stage labels with which process_one reports a failure
FailureLabels == {"Download Failed: ", "Conversion Failed: "}

\* C14 (as claimed): whenever process_one has raised, whatever stage
\* failed, it has emitted a progress event for the url whose stage label
\* names the failure.
C14_FailureReported ==
    \A i \in Items :
        pc[i] = "raised" =>
            \E k \in 1..Len(events[i]) :
                Head(events[i][k].stage) \in FailureLabels

\* the transfer stage was entered and found no volume to copy to
NoVolumeFound(evs, cs) ==
    /\ cs.usb = 0
    /\ \E k \in 1..Len(evs) : evs[k] = Event(98, <<"Copying to USB">>)

\* C15: with automatic transfer enabled and no target volume found, the
\* item does not fail: process_one reports (100, "Complete"), records the
\* id it learned in history, and returns the local paths that size
\* remediation produced.
C15_NoVolumeIsNotFailure ==
    [][\A i \in Items :
           ( /\ pc[i] = "convert" /\ pc'[i] # "convert"
             /\ NoVolumeFound(events'[i], calls'[i]) )
           => /\ pc'[i] = "returned"
              /\ error'[i] = "none"
              /\ events'[i][Len(events'[i])] = Event(100, <<"Complete">>)
              /\ info_dict'[i].id # NoId =>
                     is_processed(history', info_dict'[i].id)
              /\ ret'[i] = final_paths'[i]
              /\ ret'[i] = handle_size_exceed(output_path[i],
                                              output_path[i] \in big',
                                              profile.on_size_exceed,
                                              TRUE).paths
              /\ \A k \in 1..Len(ret'[i]) : ret'[i][k].dir = "out"]_vars

\* an item with an id completed with its local files although the transfer
\* stage found no volume
C15_Witness ==
    \E i \in Items :
        /\ Completed(i)
        /\ profile.usb_auto_copy
        /\ NoVolumeFound(events[i], calls[i])
        /\ ret[i] # <<>>
        /\ info_dict[i].id # NoId

\* the file handle_size_exceed was called on exceeds the ceiling
Oversized == get_file_size_gb(size_args.input_path, size_disk) > size_args.max_size

\* C16 (as claimed): when handle_size_exceed has returned under an action
\* other than warn, every file of the returned list has a size of at most
\* the ceiling.
C16_SizeRespected ==
    (size_result.state = "returned" /\ size_args.action # "warn") =>
        \A k \in 1..Len(size_result.paths) :
            get_file_size_gb(size_result.paths[k], size_disk)
                <= size_args.max_size

\* C17 (as claimed): when handle_size_exceed has returned [] under the skip
\* action for a file larger than the ceiling, that file is no longer on
\* disk.
C17_SkipRemoves ==
    ( /\ size_result.state = "returned"
      /\ size_args.action = "skip"
      /\ size_result.paths = <<>> )
    => size_args.input_path \notin DOMAIN size_disk

\* C18: handle_size_exceed returns [file] and leaves the disk as it is
\* whenever the file's size is at most the ceiling (under every action) and
\* whenever the action is warn; it returns [] exactly when the size exceeds
\* the ceiling and the action is skip.
C18_NoOpAndSkip ==
    [][(size_result.state = "called" /\ size_result'.state # "called") =>
          /\ (~Oversized \/ size_args.action = "warn") =>
                 /\ size_result'.state = "returned"
                 /\ size_result'.paths = <<size_args.input_path>>
                 /\ size_disk' = size_disk
          /\ (size_result'.state = "returned" /\ size_result'.paths = <<>>)
                 <=> (Oversized /\ size_args.action = "skip")]_vars

\* under the skip action a file within the ceiling was returned as it is
C18_Witness ==
    /\ size_result.state = "returned"
    /\ size_args.action = "skip"
    /\ size_args.input_path \in DOMAIN size_disk
    /\ size_result.paths = <<size_args.input_path>>

\* C19: for a file larger than the ceiling under split or compress,
\* handle_size_exceed raises or returns a non-empty list of files that are
\* on disk; when the tool exited successfully and no part file (split) or
\* no output file (compress) is found, it raises.
C19_OutputOrError ==
    ( /\ size_result.state # "called"
      /\ Oversized
      /\ size_args.action \in {"split", "compress"} )
    => /\ size_result.state = "raised" \/ size_result.paths # <<>>
       /\ \A k \in 1..Len(size_result.paths) :
              /\ size_result.paths[k] \in DOMAIN size_disk
              /\ size_result.paths[k] # size_args.input_path
       /\ (size_args.tool.run_ok /\ ~size_args.tool.found) =>
              size_result.state = "raised"

\* ffmpeg exited successfully on an oversized file under split, no part
\* file was found, and the call raised
C19_Witness ==
    /\ size_result.state = "raised"
    /\ Oversized
    /\ size_args.action = "split"
    /\ size_args.tool.run_ok
    /\ ~size_args.tool.found

\* the confirmed-available encoder set of the call
Confirmed ==
    available_encoders(detect_available_gpus(enc_args).value, enc_args.ffmpeg)

\* the positions of the priority list whose encoder is confirmed
ConfirmedAt ==
    {k \in 1..Len(enc_args.encoder_priority) :
         enc_args.encoder_priority[k] \in Confirmed}

\* C20: when an entry of the priority list is in the confirmed-available
\* set and select_best_encoder returns, it returns the entry at the first
\* such position: no entry before it is confirmed.
C20_FirstAvailable ==
    (enc_result.state = "returned" /\ ConfirmedAt # {}) =>
        \E k \in ConfirmedAt :
            /\ enc_result.encoder = enc_args.encoder_priority[k]
            /\ \A j \in 1..(k - 1) : j \notin ConfirmedAt

\* the entry returned is not the head of the list, and a different
\* confirmed encoder stands after it in the list
C20_Witness ==
    /\ enc_result.state = "returned"
    /\ ConfirmedAt # {}
    /\ enc_result.encoder # Head(enc_args.encoder_priority)
    /\ \E k \in ConfirmedAt :
           enc_args.encoder_priority[k] # enc_result.encoder

\* ffmpeg -encoders ran and lists the encoder
Lists(encoder) ==
    enc_args.ffmpeg.state = "ok" /\ encoder \in enc_args.ffmpeg.encoders

\* C21: when no entry of the priority list is in the confirmed-available
\* set and libx264 is confirmed, select_best_encoder returns libx264 and
\* does not raise; libx264 is then not an entry of the list.
C21_SoftwareFallback ==
    ( /\ enc_result.state # "called"
      /\ Lists("libx264")
      /\ ConfirmedAt = {} )
    => /\ enc_result = EncResult("returned", "libx264", "none")
       /\ \A k \in 1..Len(enc_args.encoder_priority) :
              enc_args.encoder_priority[k] # "libx264"

\* libx264 was returned for a non-empty priority list of hardware encoders
\* of which ffmpeg lists one whose hardware was not detected
C21_Witness ==
    /\ enc_result = EncResult("returned", "libx264", "none")
    /\ enc_args.encoder_priority # <<>>
    /\ ConfirmedAt = {}
    /\ \E k \in 1..Len(enc_args.encoder_priority) :
           Lists(enc_args.encoder_priority[k])

\* C22 (as claimed): whenever libx264 is not confirmed, select_best_encoder
\* raises GPUDetectionError, whatever the hardware probes and the priority
\* list are.
C22_RaisesWithoutSoftware ==
    (enc_result.state # "called" /\ ~Lists("libx264")) =>
        enc_result = EncResult("raised", "none", "GPUDetectionError")

\* C22 (amended): when check_ffmpeg_encoder answers False for libx264,
\* select_best_encoder raises GPUDetectionError exactly when no entry of
\* the priority list is in the confirmed-available set; otherwise it
\* returns the first such entry, a hardware encoder.
C22_TotalFailure ==
    ( /\ enc_result.state # "called"
      /\ enc_args.ffmpeg.state # "raises"
      /\ ~Lists("libx264") )
    => IF ConfirmedAt = {}
       THEN enc_result = EncResult("raised", "none", "GPUDetectionError")
       ELSE /\ enc_result.state = "returned"
            /\ enc_result.encoder \in Confirmed \ {"libx264"}

\* GPUDetectionError was raised although hardware was detected and the
\* priority list is not empty
C22_Witness ==
    /\ enc_result = EncResult("raised", "none", "GPUDetectionError")
    /\ enc_args.nvml = "found"
    /\ enc_args.encoder_priority # <<>>

\* the vendor whose hardware an encoder needs
VendorOf(encoder) ==
    CHOOSE v \in DOMAIN vendor_encoder_map : vendor_encoder_map[v] = encoder

\* the vendors detect_available_gpus reports for the call
Detected == SeqRange(detect_available_gpus(enc_args).value)

\* C23: whatever select_best_encoder returns is listed by ffmpeg -encoders
\* and is in the confirmed-available set; a hardware encoder is returned
\* only when detect_available_gpus reported its vendor.
C23_OnlyConfirmed ==
    enc_result.state = "returned" =>
        /\ Lists(enc_result.encoder)
        /\ enc_result.encoder \in Confirmed
        /\ enc_result.encoder # "libx264" =>
               VendorOf(enc_result.encoder) \in Detected

\* libx264 was returned although the head of the priority list is the
\* encoder of a detected NVIDIA device: ffmpeg does not list that encoder
C23_Witness ==
    /\ enc_result = EncResult("returned", "libx264", "none")
    /\ enc_args.nvml = "found"
    /\ enc_args.encoder_priority # <<>>
    /\ Head(enc_args.encoder_priority) = "h264_nvenc"

\* C30: a vendor probe that finds nothing or raises does not keep
\* detect_available_gpus from returning, with every vendor whose own device
\* query found a device in its list, and select_best_encoder raises nothing
\* but GPUDetectionError.
C30_ProbesIndependent ==
    enc_result.state # "called" =>
        /\ ~gpu_result.raised
        /\ enc_args.nvml = "found" => "nvidia" \in SeqRange(gpu_result.value)
        /\ \A v \in {"amd", "intel"} :
               (enc_args.gputil.state = "ok" /\ v \in enc_args.gputil.gpus)
               => v \in SeqRange(gpu_result.value)
        /\ enc_result.state = "raised" => enc_result.error = "GPUDetectionError"

\* the bitrate split_video works with when ffprobe reports a duration or a
\* bitrate: the probed bitrate if reported, else file size over duration
C29_Bitrate ==
    size_disk[size_args.input_path] \div size_args.media.duration

\* C29: when split_video cuts an oversized file whose duration (or bitrate)
\* ffprobe reports, the segment time given to ffmpeg is the greater of 1 s
\* and 0.95 * max_size / bitrate: never under 1 s, and when above 1 s the
\* bits of one segment, bitrate * segment time, are within the ceiling.
C29_SegmentTime ==
    ( /\ segment_time # 0
      /\ size_args.tool.duration_reported \/ size_args.tool.bitrate_reported )
    => /\ segment_time >= 1000
       /\ segment_time > 1000 =>
             /\ C29_Bitrate * segment_time <= 950 * size_args.max_size
             /\ C29_Bitrate * (segment_time + 1) > 950 * size_args.max_size
             /\ (C29_Bitrate * segment_time) \div 1000 <= size_args.max_size
       /\ segment_time = 1000 =>
             950 * size_args.max_size < C29_Bitrate * 1001

\* a file was cut at a segment time above the floor, computed from the
\* bitrate estimated from file size and duration, and the parts were found
C29_Witness ==
    /\ size_result.state = "returned"
    /\ Len(size_result.paths) > 1
    /\ segment_time > 1000
    /\ size_args.tool.duration_reported
    /\ ~size_args.tool.bitrate_reported

\* C24: for every item whose metadata the pre-check resolved and whose
\* conversion succeeded, the path the converter wrote is the path
\* get_output_path predicts from that metadata.
C24_PredictedIsWritten ==
    \A i \in Items :
        (conversion_success[i] /\ info_dict[i].ok) =>
            output_path[i] = get_output_path(info_dict[i])

\* the call of process_one on item i is in progress
InCall(i) == pc[i] \notin {"idle", "returned", "raised"}

\* C25: once the pre-check of an item has resolved a content id, the id the
\* call holds for the item stays that id until the call ends, and the id
\* recorded in history at completion is that id.
C25_IdImmutable ==
    [][\A i \in Items :
          (InCall(i) /\ info_dict[i].ok /\ info_dict[i].id # NoId) =>
              /\ info_dict'[i].id = info_dict[i].id
              /\ pc'[i] = "returned" => info_dict[i].id \in history']_vars

C27_Failed(k) == dl_args.outcomes[k] \notin {"ok", "mkdir_error"}

\* C27: download_video runs at most 3 times; it returns at the first run
\* that succeeds; it runs again only after a DownloadError (or
\* ConnectionError); the third failure in a row is raised to the caller;
\* an invalid url raises ValueError from the first run, with no retry.
C27_RetryPolicy ==
    /\ dl_call.attempts <= 3
    /\ dl_call.state = "returned" =>
           /\ dl_args.valid
           /\ dl_args.outcomes[dl_call.attempts] = "ok"
           /\ \A k \in 1..(dl_call.attempts - 1) : C27_Failed(k)
    /\ dl_call.state = "retrying" =>
           /\ dl_call.last \in {"DownloadError", "ConnectionError"}
           /\ dl_args.valid
           /\ \A k \in 1..dl_call.attempts : C27_Failed(k)
    /\ dl_call.state = "raised" =>
           /\ dl_call.error = dl_call.last
           /\ dl_call.error = "DownloadError" =>
                  /\ dl_call.attempts = 3
                  /\ \A k \in 1..3 : C27_Failed(k)
           /\ dl_call.error # "DownloadError" =>
                  \A k \in 1..(dl_call.attempts - 1) : C27_Failed(k)
    /\ (~dl_args.valid /\ dl_call.state \notin {"idle", "called"}) =>
           dl_call = [state |-> "raised", attempts |-> 1,
                      last |-> "ValueError", error |-> "ValueError"]

\* the third run succeeded after two failures of different kinds
C27_Witness ==
    /\ dl_call.state = "returned"
    /\ dl_call.attempts = 3
    /\ dl_args.outcomes[1] = "ydl_error"
    /\ dl_args.outcomes[2] = "no_file"

\* C28: as long as every append succeeded, every id mark_completed was
\* called with is processed in any instance loaded from the file (and so
\* in the instance in use, marked or loaded), and mark_completed on an id
\* the instance already holds leaves the file as it is.
C28_Durable ==
    /\ [](~hist_call.fault =>
            \A id \in hist_call.marked :
                /\ is_processed(load_history(history_file), id)
                /\ hist_call.op = "mark" => is_processed(processed_ids, id))
    /\ [][(hist_call'.op = "mark" /\ hist_call'.n = hist_call.n + 1
             /\ is_processed(processed_ids, hist_call'.id))
           => history_file' = history_file]_vars

\* C33: the slots taken from the two semaphores are held by as many
\* different items, so no item holds one of each; the step in which an
\* item's download returns gives its download slot back before the item
\* waits for or takes a transcode slot.
C33_OneSlotPerItem ==
    /\ []((limits.D - download_semaphore) + (limits.C - convert_semaphore)
              = Cardinality(InDownload \cup InConvert))
    /\ [][\A i \in Items :
              (pc[i] = "download" /\ pc'[i] \in {"wait_cv", "convert"}) =>
                  download_semaphore' = download_semaphore + 1]_vars

\* an item transcodes while another item downloads through the only
\* download slot, which the transcoding item gave back
C33_Witness ==
    /\ limits = [D |-> 1, C |-> 1]
    /\ \E i, j \in Items :
           pc[i] = "convert" /\ calls[i].dl = 1 /\ pc[j] = "download"

\* C38: the step in which process_one raises leaves history as it is, and
\* history only ever grows in a step in which some call returns, by the id
\* of that call; a call that raises has marked nothing.
C38_RaiseLeavesHistory ==
    [][/\ (\E i \in Items : pc[i] # "raised" /\ pc'[i] = "raised")
            => history' = history
       /\ history' # history =>
              \E i \in Items :
                  /\ pc[i] # "returned" /\ pc'[i] = "returned"
                  /\ history' = history \cup {info_dict'[i].id}]_vars

\* a call has raised from size remediation, after its download and
\* conversion, with an id learned that is not in history
C38_Witness ==
    \E i \in Items :
        /\ pc[i] = "raised"
        /\ error[i] = "finalize"
        /\ info_dict[i].id # NoId
        /\ info_dict[i].id \notin history

\* C39: an item that ran to completion with an id, which the completion
\* step has marked in history, has returned at least one final path.
C39_MarkedOnlyWithOutput ==
    \A i \in Items :
        (Completed(i) /\ info_dict[i].id # NoId) =>
            /\ info_dict[i].id \in history
            /\ ret[i] # <<>>

\* the bytes total a download report carries
C32_Total ==
    IF hook'.d.total_bytes # 0 THEN hook'.d.total_bytes
    ELSE hook'.d.total_bytes_estimate

\* the step is a call of the download hook with a report that is forwarded
C32_DownloadReport(i) ==
    /\ pc[i] = "download"
    /\ hook'.n = hook.n + 1
    /\ hook'.d.status = "downloading"
    /\ C32_Total > 0

\* the step is a call of the transcoder's progress callback
C32_ConvertReport(i) ==
    /\ pc[i] = "convert"
    /\ hook'.n = hook.n + 1

C35_ConvertStages == {r.stage : r \in ConvertReports}

\* C35: in a call that ran to its end, from the first event of the
\* transcode stage on, no event carries a smaller percentage than the
\* event before it.
C35_Monotone ==
    \A i \in Items :
        Completed(i) =>
            \A k \in 1..(Len(events[i]) - 1) :
                (\E j \in 1..k : events[i][j].stage \in C35_ConvertStages)
                => events[i][k].percent <= events[i][k + 1].percent

\* C34: when every external operation ends, every item reaches a result,
\* returned or raised, and run_batch returns, for every pair of limits; no
\* item is left waiting for a slot.
C34_Terminates ==
    <>(/\ phase = "returned"
       /\ \A i \in Items : pc[i] \in {"returned", "raised"})

\* run_batch has returned after both items went through the only download
\* slot and the only transcode slot, one of them after a failed transcode
C34_Witness ==
    /\ phase = "returned"
    /\ limits = [D |-> 1, C |-> 1]
    /\ \A i \in Items : calls[i].dl = 1 /\ calls[i].cv = 1
    /\ \E i \in Items : error[i] = "convert"

\* C31: once the set calls of all the threads, each storing a different
\* url, have returned, metadata.json parses and holds every thread's entry.
C31_BothStored ==
    (\A t \in Threads : set_call[t].pc = "returned")
        => /\ json_load(cache_file).ok
           /\ \A t \in Threads : Key(t) \in load_cache(cache_file)

\* C40: once every run_pipeline_task has finished, usb_auto_copy of the
\* shared profile has the value it had before the first request.
C40_FlagRestored ==
    (\A j \in Requests : task[j].pc = "finished")
        => usb_auto_copy = loaded_usb_auto_copy

\* the items of the batch whose url is u
ItemsOf(u) == {i \in Items : url[i] = u}

\* C36: a url that appears more than once in the batch, not yet processed,
\* has the downloader and the transcoder invoked at most once for it in
\* the whole batch.
C36_OncePerUrl ==
    \A u \in Items :
        /\ Cardinality({i \in ItemsOf(u) : calls[i].dl >= 1}) <= 1
        /\ Cardinality({i \in ItemsOf(u) : calls[i].cv >= 1}) <= 1
        /\ \A i \in ItemsOf(u) : calls[i].dl <= 1 /\ calls[i].cv <= 1

\* C37: two items in the transcode stage at the same time never have the
\* same output path.
C37_DistinctOutputs ==
    \A i, j \in Items :
        (i # j /\ pc[i] = "convert" /\ pc[j] = "convert")
            => output_path[i] # output_path[j]

====
